---- MODULE Spec2Model ----
(***************************************************************************)
(* NIFTY A-Day alert system: the signal pipeline (strategy engine, signal  *)
(* aggregator, confidence scorer, safety filter, delivery hand-over).      *)
(*                                                                         *)
(* Times are minutes since midnight IST (timeUtils.timeToMinutes); the     *)
(* clock is sampled at the instants listed in Instants.  Eleven            *)
(* specifications share the variables:                                     *)
(*   SpecSafety  the safety filter under any sequence of its exported      *)
(*               operations;                                               *)
(*   SpecAgg     aggregateSignals / calculateConfidence over batches of    *)
(*               detector results;                                         *)
(*   Spec        the orchestrator of index.js: cron ticks, manual checks,  *)
(*               lock/unlock, delivery outcomes; of each detector it keeps *)
(*               the signalSent flag;                                      *)
(*   SpecDay     the day-scoped state of the strategy engine and of the    *)
(*               detectors (day stamps, opening range, key levels) under   *)
(*               startDay, captureORB, evaluations run one at a time and   *)
(*               endDay, over one day;                                     *)
(*   SpecClassifier  checkADay of the Day Classifier, its calls            *)
(*               overlapping, over the sampled candles and volumes;        *)
(*   SpecScore   each detector's analyze along its scoring paths and the   *)
(*               confidence breakdown built from its result;               *)
(*   SpecOrb     one call of the opening-range detector's analyze;         *)
(*   SpecExpiry  one call of the expiry detector's checkMomentum;          *)
(*   SpecDayBehavior  one call of the day-behavior detector's analyze;     *)
(*   SpecPullback  the pullback detector's analyze and reset over a day    *)
(*               and the next;                                             *)
(*   SpecStop    aggregateSignals and processAggregatedSignal over         *)
(*               detector results that carry stop-loss hints.              *)
(***************************************************************************)
EXTENDS Integers, Sequences, FiniteSets, TLC

VARIABLES
  now,              \* wall clock, minutes since midnight (IST)
  today,            \* calendar day number (formatDateForKite(new Date()))
  minScoreEnv,      \* parseInt(process.env.MIN_CONFIDENCE_SCORE, 10): None for NaN (unset), or Some(n)
  dailyState,       \* safetyFilter.js: let dailyState
  isRunning,        \* index.js: let isRunning
  todayIsADay,      \* index.js: let todayIsADay
  adayDirection,    \* index.js: let adayDirection
  forceAnalyzeMode, \* index.js: let forceAnalyzeMode
  signalSent,       \* per detector: this.signalSent
  ticks,            \* evaluations in flight (async calls of checkSignals / POST /check-signals)
  batch,            \* SpecAgg: the detector results handed to aggregateSignals
  aggOut,           \* SpecAgg: what aggregateSignals returned for batch
  lastOp,           \* observation: the operation that ran last
  evaluations,      \* number of evaluations started in the session
  handed,           \* observation: alertService.sendAlert calls per direction in the session
  markedSent,       \* observation: directions markSignalSent was called for in the session
  lossRecorded,     \* observation: sum of the losses passed to recordTrade in the session
  lastRunDate,      \* strategyEngine: this.lastRunDate
  lastCheckDate,    \* per detector: this.lastCheckDate
  orbRange,         \* ORBStrategy: this.orbRange (this.orbCaptured is orbRange # None)
  levels,           \* SRStrategy: this.levels
  sessionDay,       \* observation: the day startDay last ran its resets on
  laterResets,      \* observation: per detector, reset() calls since startDay's resets
  captured,         \* observation: what captureORB left in orbRange and levels, and on which day
  analyzed,         \* observation: what each detector's analyze did in the last runStrategies
  adayFilter,       \* adayFilter.js: let todayADayStatus, let lastCheckDate
  adayCalls,        \* SpecClassifier: the calls of checkADay in flight
  computed,         \* observation: the day of the last fresh classification and how many that day
  pullback          \* PullbackStrategy: this.firstHourTrend, this.trendDetermined, this.pullbackDetected

vars == <<now, today, minScoreEnv, dailyState, isRunning, todayIsADay, adayDirection,
          forceAnalyzeMode, signalSent, ticks, batch, aggOut, lastOp, evaluations, handed, markedSent, lossRecorded,
          lastRunDate, lastCheckDate, orbRange, levels, sessionDay, laterResets, captured,
          analyzed, adayFilter, adayCalls, computed, pullback>>

(***************************************************************************)
(* Bounds of the model                                                     *)
(***************************************************************************)
MaxDays == 2
MaxTrades == 2
MaxTicks == 2
MaxEvaluations == 2
MaxHanded == 2
MaxCalls == 2
MaxComputed == 2

(***************************************************************************)
(* Names and values                                                        *)
(***************************************************************************)
null == "null"

\* A nullable number: None, or Some(x)
None == <<>>
Some(x) == <<x>>

Directions == {"BUY_CE", "BUY_PE"}

\* The names the detectors are registered under, in registration order.
StrategyOrder == <<"ORB", "PULLBACK", "EXPIRY", "VWAP", "SR", "DAY_BEHAVIOR">>
Strategies == {StrategyOrder[i] : i \in 1..Len(StrategyOrder)}

\* The names the detector classes give themselves (BaseStrategy.name).
ClassNames == {"ORB BREAKOUT", "PULLBACK CONTINUATION", "EXPIRY MOMENTUM",
               "VWAP CROSSOVER", "S/R BREAKOUT", "DAY BEHAVIOR"}

timeToMinutes(h, m) == h * 60 + m

\* The sampled clock readings: every window boundary, the minute after every
\* window end, and instants less and more than the minimum gap apart.
Instants ==
  { timeToMinutes(9, 15), timeToMinutes(9, 30), timeToMinutes(9, 45),
    timeToMinutes(10, 0), timeToMinutes(10, 15), timeToMinutes(10, 30),
    timeToMinutes(10, 31), timeToMinutes(10, 36), timeToMinutes(11, 0),
    timeToMinutes(13, 30), timeToMinutes(13, 31), timeToMinutes(14, 0),
    timeToMinutes(14, 1), timeToMinutes(14, 30), timeToMinutes(14, 31),
    timeToMinutes(15, 30) }

FirstInstant == CHOOSE t \in Instants : \A u \in Instants : t <= u

\* config.time.marketOpen / marketClose as used by isMarketOpen
marketOpen == timeToMinutes(9, 15)
marketClose == timeToMinutes(15, 30)

\* config.trading.maxLossPerTrade (default)
maxLossPerTrade == 300000

\* validateSignal: const minGap = 5 * 60 * 1000 ms, here in minutes
minGap == 5

\* The pnl values recordTrade is called with.
PnlSamples == {-300000, -150000, 50000}

(***************************************************************************)
(* timeUtils.js                                                            *)
(***************************************************************************)
isWithinTimeWindow(t, start, end) == t >= start /\ t <= end

isMarketOpen(t) == isWithinTimeWindow(t, marketOpen, marketClose)

(***************************************************************************)
(* Detector windows: the timeWindow each detector class declares           *)
(***************************************************************************)
timeWindow(s) ==
  CASE s = "ORB"          -> [start |-> timeToMinutes(9, 30),  end |-> timeToMinutes(10, 30)]
    [] s = "PULLBACK"     -> [start |-> timeToMinutes(10, 15), end |-> timeToMinutes(13, 30)]
    [] s = "EXPIRY"       -> [start |-> timeToMinutes(11, 0),  end |-> timeToMinutes(14, 0)]
    [] s = "VWAP"         -> [start |-> timeToMinutes(10, 0),  end |-> timeToMinutes(14, 30)]
    [] s = "SR"           -> [start |-> timeToMinutes(9, 45),  end |-> timeToMinutes(14, 30)]
    [] s = "DAY_BEHAVIOR" -> [start |-> timeToMinutes(10, 15), end |-> timeToMinutes(14, 0)]

\* BaseStrategy.isInTimeWindow
isInTimeWindow(s, t) == isWithinTimeWindow(t, timeWindow(s).start, timeWindow(s).end)

(***************************************************************************)
(* safetyFilter.js                                                         *)
(***************************************************************************)
NoSignalsSent == [d \in Directions |-> FALSE]

\* the module-level initial value of dailyState
InitialDailyState ==
  [date |-> None, signalsSent |-> NoSignalsSent, totalLoss |-> 0, trades |-> 0,
   lastSignalTime |-> None, isLocked |-> FALSE]

resetDailyState(day) ==
  [date |-> Some(day), signalsSent |-> NoSignalsSent, totalLoss |-> 0, trades |-> 0,
   lastSignalTime |-> None, isLocked |-> FALSE]

\* variant: the state is reset on every call
ensureTodayState_Always(ds, day) == resetDailyState(day)

ensureTodayState(ds, day) == IF ds.date # Some(day) THEN resetDailyState(day) ELSE ds

hasSignalBeenSent(ds, direction) == ds.signalsSent[direction] = TRUE

\* variant: the timestamp is recorded but the direction's flag is not
markSignalSent_NoFlag(ds, direction, t) == [ds EXCEPT !.lastSignalTime = Some(t)]

\* variant: marking one direction marks the other one too
markSignalSent_Both(ds, direction, t) ==
  [ds EXCEPT !.signalsSent = [d \in Directions |-> TRUE], !.lastSignalTime = Some(t)]

\* variant: the flag of the other direction is set
markSignalSent_Opposite(ds, direction, t) ==
  [ds EXCEPT !.signalsSent = [d \in Directions |-> IF d = direction THEN @[d] ELSE TRUE],
             !.lastSignalTime = Some(t)]

markSignalSent(ds, direction, t) ==
  [ds EXCEPT !.signalsSent[direction] = TRUE, !.lastSignalTime = Some(t)]

\* const timeWindows = { ORB, PULLBACK, EXPIRY }
safetyTimeWindows ==
  [ORB      |-> [start |-> timeToMinutes(9, 30),  end |-> timeToMinutes(10, 30)],
   PULLBACK |-> [start |-> timeToMinutes(10, 15), end |-> timeToMinutes(13, 30)],
   EXPIRY   |-> [start |-> timeToMinutes(11, 0),  end |-> timeToMinutes(14, 0)]]

isWithinStrategyTimeWindow(strategy, t) ==
  IF strategy \notin DOMAIN safetyTimeWindows
    THEN FALSE
    ELSE isWithinTimeWindow(t, safetyTimeWindows[strategy].start,
                            safetyTimeWindows[strategy].end)

abs(x) == IF x < 0 THEN -x ELSE x

\* variant: the pnl is subtracted whatever its sign, so a profit lowers the recorded loss
recordTrade_Net(ds, pnl) ==
  [ds EXCEPT !.trades = @ + 1,
             !.totalLoss = IF @ - pnl < 0 THEN 0 ELSE @ - pnl]

recordTrade(ds, pnl) ==
  [ds EXCEPT !.trades = @ + 1,
             !.totalLoss = IF pnl < 0 THEN @ + abs(pnl) ELSE @]

\* variant: the cap itself does not count as hit
isMaxLossHit_Strict(ds) == ds.totalLoss > maxLossPerTrade

isMaxLossHit(ds) == ds.totalLoss >= maxLossPerTrade

lockTrading(ds) == [ds EXCEPT !.isLocked = TRUE]

unlockTrading(ds) == [ds EXCEPT !.isLocked = FALSE]

isTradingLocked(ds) == ds.isLocked

\* getDailySummary: a copy of the counters and of the lock flag
getDailySummary(ds) ==
  [date |-> ds.date, signalsSent |-> ds.signalsSent, totalLoss |-> ds.totalLoss,
   tradeCount |-> ds.trades, isLocked |-> ds.isLocked]

\* signal.strategy.split(' ')[0].toUpperCase(), on the names in use
strategyKey(name) ==
  CASE name = "ORB BREAKOUT"          -> "ORB"
    [] name = "PULLBACK CONTINUATION" -> "PULLBACK"
    [] name = "EXPIRY MOMENTUM"       -> "EXPIRY"
    [] name = "VWAP CROSSOVER"        -> "VWAP"
    [] name = "S/R BREAKOUT"          -> "S/R"
    [] name = "DAY BEHAVIOR"          -> "DAY"
    [] OTHER                          -> name

ReasonLocked == "Trading is locked for the day"
ReasonMaxLoss == "Max daily loss hit"
ReasonDuplicate == "Signal already sent"
ReasonOutsideWindow == "Outside time window"
ReasonTooSoon == "Too soon after last signal"
ReasonValidated == "Signal validated"

\* variant: the minimum gap is checked before the strategy time window
validateSignal_GapFirst(ds, direction, strategy, t) ==
  IF isTradingLocked(ds)
    THEN [isValid |-> FALSE, reason |-> ReasonLocked]
  ELSE IF isMaxLossHit(ds)
    THEN [isValid |-> FALSE, reason |-> ReasonMaxLoss]
  ELSE IF hasSignalBeenSent(ds, direction)
    THEN [isValid |-> FALSE, reason |-> ReasonDuplicate]
  ELSE IF ds.lastSignalTime # None /\ t - ds.lastSignalTime[1] < minGap
    THEN [isValid |-> FALSE, reason |-> ReasonTooSoon]
  ELSE IF ~isWithinStrategyTimeWindow(strategyKey(strategy), t)
    THEN [isValid |-> FALSE, reason |-> ReasonOutsideWindow]
  ELSE [isValid |-> TRUE, reason |-> ReasonValidated]

\* variant: a signal presented exactly the minimum gap after the last one is
\* still too soon
validateSignal_GapInclusive(ds, direction, strategy, t) ==
  IF isTradingLocked(ds)
    THEN [isValid |-> FALSE, reason |-> ReasonLocked]
  ELSE IF isMaxLossHit(ds)
    THEN [isValid |-> FALSE, reason |-> ReasonMaxLoss]
  ELSE IF hasSignalBeenSent(ds, direction)
    THEN [isValid |-> FALSE, reason |-> ReasonDuplicate]
  ELSE IF ~isWithinStrategyTimeWindow(strategyKey(strategy), t)
    THEN [isValid |-> FALSE, reason |-> ReasonOutsideWindow]
  ELSE IF ds.lastSignalTime # None /\ t - ds.lastSignalTime[1] <= minGap
    THEN [isValid |-> FALSE, reason |-> ReasonTooSoon]
  ELSE [isValid |-> TRUE, reason |-> ReasonValidated]

\* validateSignal on the state left by its ensureTodayState() call
validateSignal(ds, direction, strategy, t) ==
  IF isTradingLocked(ds)
    THEN [isValid |-> FALSE, reason |-> ReasonLocked]
  ELSE IF isMaxLossHit(ds)
    THEN [isValid |-> FALSE, reason |-> ReasonMaxLoss]
  ELSE IF hasSignalBeenSent(ds, direction)
    THEN [isValid |-> FALSE, reason |-> ReasonDuplicate]
  ELSE IF ~isWithinStrategyTimeWindow(strategyKey(strategy), t)
    THEN [isValid |-> FALSE, reason |-> ReasonOutsideWindow]
  ELSE IF ds.lastSignalTime # None /\ t - ds.lastSignalTime[1] < minGap
    THEN [isValid |-> FALSE, reason |-> ReasonTooSoon]
  ELSE [isValid |-> TRUE, reason |-> ReasonValidated]

(***************************************************************************)
(* confidenceScorer.js                                                     *)
(***************************************************************************)
\* SCORE_WEIGHTS
ADAY_ALIGNMENT == 20
OI_SUPPORT == 15
VOLUME_SPIKE == 15
OPTION_GREEKS == 10

\* const MIN_CONFIDENCE_SCORE = parseInt(process.env.MIN_CONFIDENCE_SCORE, 10) || 60
DefaultMinScore == 60
MIN_CONFIDENCE_SCORE ==
  IF minScoreEnv = None \/ minScoreEnv[1] = 0 THEN DefaultMinScore ELSE minScoreEnv[1]

\* Math.floor(maxScore * num / den)
floorShare(maxScore, num, den) == (maxScore * num) \div den

\* adayStatus = [isADay, direction]
scoreAdayAlignment(adayStatus, signalDirection) ==
  IF ~adayStatus.isADay
    THEN 0
  ELSE IF \/ (adayStatus.direction = "BULLISH" /\ signalDirection = "BUY_CE")
          \/ (adayStatus.direction = "BEARISH" /\ signalDirection # "BUY_CE")
    THEN ADAY_ALIGNMENT
  ELSE floorShare(ADAY_ALIGNMENT, 5, 10)

\* oiAnalysis = [empty, pcrRatio (in hundredths, 0 for null), maxPain, spotPrice
\* (0 for null), oiBuildUp]; empty stands for {} (the analyzer call failed)
scoreOISupport(oiAnalysis, signalDirection) ==
  IF oiAnalysis.empty
    THEN 0
    ELSE (IF oiAnalysis.pcrRatio # 0
               /\ \/ (oiAnalysis.pcrRatio > 120 /\ signalDirection = "BUY_CE")
                  \/ (oiAnalysis.pcrRatio < 80 /\ signalDirection # "BUY_CE")
            THEN 5 ELSE 0)
       + (IF oiAnalysis.maxPain # 0 /\ oiAnalysis.spotPrice # 0
               /\ abs(oiAnalysis.spotPrice - oiAnalysis.maxPain) * 100 < oiAnalysis.spotPrice
            THEN 5 ELSE 0)
       + (IF oiAnalysis.oiBuildUp THEN 5 ELSE 0)

\* variant: the tier boundaries are exclusive
scoreVolumeSpike_Exclusive(volumeAnalysis) ==
  IF volumeAnalysis.volumeRatio = None
    THEN 0
  ELSE IF volumeAnalysis.volumeRatio[1] > 200
    THEN VOLUME_SPIKE
  ELSE IF volumeAnalysis.volumeRatio[1] > 150
    THEN floorShare(VOLUME_SPIKE, 7, 10)
  ELSE IF volumeAnalysis.volumeRatio[1] > 100
    THEN floorShare(VOLUME_SPIKE, 3, 10)
  ELSE 0

\* volumeAnalysis = [volumeRatio]: None for undefined, Some(0) for null, else
\* Some(ratio in hundredths)
scoreVolumeSpike(volumeAnalysis) ==
  IF volumeAnalysis.volumeRatio = None
    THEN 0
  ELSE IF volumeAnalysis.volumeRatio[1] >= 200
    THEN VOLUME_SPIKE
  ELSE IF volumeAnalysis.volumeRatio[1] >= 150
    THEN floorShare(VOLUME_SPIKE, 7, 10)
  ELSE IF volumeAnalysis.volumeRatio[1] >= 100
    THEN floorShare(VOLUME_SPIKE, 3, 10)
  ELSE 0

scoreOptionGreeks == floorShare(OPTION_GREEKS, 5, 10)

\* getCategoryKey on the names in use (String.includes tests, in order)
getCategoryKey(strategyName) ==
  CASE strategyName \in {"VWAP", "VWAP CROSSOVER"}              -> "vwapConfirmation"
    [] strategyName = "S/R BREAKOUT"                             -> "srBreakout"
    [] strategyName \in {"DAY_BEHAVIOR", "DAY BEHAVIOR"}         -> "dayBehavior"
    [] strategyName \in {"ORB", "ORB BREAKOUT"}                  -> "orbBreakout"
    [] strategyName \in {"PULLBACK", "PULLBACK CONTINUATION"}    -> "pullbackContinuation"
    [] strategyName \in {"EXPIRY", "EXPIRY MOMENTUM"}            -> "expiryMomentum"
    [] OTHER                                                     -> null

\* the loop over strategyResults: the scores added to totalScore, given the
\* category keys already in breakdown
RECURSIVE strategyScores(_, _)
strategyScores(results, keys) ==
  IF results = <<>>
    THEN 0
    ELSE LET r == Head(results)
             k == getCategoryKey(r.strategyName)
         IN IF r.score > 0 /\ k # null /\ k \notin keys
              THEN r.score + strategyScores(Tail(results), keys \cup {k})
              ELSE strategyScores(Tail(results), keys)

\* the sum of the categories before the cap
rawTotal(strategyResults, adayStatus, oiAnalysis, volumeAnalysis, signalDirection) ==
    scoreAdayAlignment(adayStatus, signalDirection)
  + strategyScores(strategyResults, {})
  + scoreOISupport(oiAnalysis, signalDirection)
  + scoreVolumeSpike(volumeAnalysis)
  + scoreOptionGreeks

min(a, b) == IF a < b THEN a ELSE b

\* variant: no cap
capTotal_None(total) == total

\* totalScore = Math.min(100, totalScore)
capTotal(total) == min(100, total)

\* variant: the threshold is compared with the default, whatever is configured
meetsThreshold_Default(score) == score >= DefaultMinScore

meetsThreshold(score) == score >= MIN_CONFIDENCE_SCORE

calculateConfidence(strategyResults, adayStatus, oiAnalysis, volumeAnalysis, signalDirection) ==
  LET totalScore == capTotal(rawTotal(strategyResults, adayStatus, oiAnalysis,
                                      volumeAnalysis, signalDirection))
  IN [totalScore |-> totalScore,
      meetsThreshold |-> meetsThreshold(totalScore),
      threshold |-> MIN_CONFIDENCE_SCORE]

(***************************************************************************)
(* signalAggregator.js                                                     *)
(***************************************************************************)
\* a detector result as the engine returns it: [strategyName, signal, score]
hasSignal(r) == r.signal # null

RECURSIVE sumScores(_)
sumScores(results) ==
  IF results = <<>> THEN 0 ELSE Head(results).score + sumScores(Tail(results))

\* variant: nothing is discarded
ofDirection_All(results, d) == results

ofDirection(results, d) == SelectSeq(results, LAMBDA r : r.signal = d)

\* variant: the first aligned result is kept, whatever the scores
RECURSIVE reduceBest_First(_, _)
reduceBest_First(results, best) ==
  IF results = <<>>
    THEN best
    ELSE reduceBest_First(Tail(results),
                          IF best = None THEN Some(Head(results)) ELSE best)

\* alignedResults.reduce: the first result with the strictly highest score
\* (best is None for the reduce's initial null)
RECURSIVE reduceBest(_, _)
reduceBest(results, best) ==
  IF results = <<>>
    THEN best
    ELSE reduceBest(Tail(results),
                    IF best = None \/ Head(results).score > best[1].score
                      THEN Some(Head(results)) ELSE best)

namesOf(results) == [i \in 1..Len(results) |-> results[i].strategyName]

\* variant: the count of agreeing detectors decides before the summed score
primaryDirectionOf_CountFirst(signalResults) ==
  LET ce == ofDirection(signalResults, "BUY_CE")
      pe == ofDirection(signalResults, "BUY_PE")
  IN IF Len(ce) # Len(pe)
       THEN (IF Len(ce) > Len(pe) THEN "BUY_CE" ELSE "BUY_PE")
       ELSE (IF sumScores(ce) >= sumScores(pe) THEN "BUY_CE" ELSE "BUY_PE")

primaryDirectionOf(signalResults) ==
  LET ce == ofDirection(signalResults, "BUY_CE")
      pe == ofDirection(signalResults, "BUY_PE")
  IN IF sumScores(ce) # sumScores(pe)
       THEN (IF sumScores(ce) > sumScores(pe) THEN "BUY_CE" ELSE "BUY_PE")
       ELSE (IF Len(ce) >= Len(pe) THEN "BUY_CE" ELSE "BUY_PE")

noSignal == [direction |-> null]

aggregateSignals(strategyResults, adayStatus, oiAnalysis, volumeAnalysis) ==
  LET signalResults == SelectSeq(strategyResults, hasSignal)
  IN IF Len(signalResults) = 0
       THEN noSignal
       ELSE
         LET primaryDirection == primaryDirectionOf(signalResults)
             alignedResults == ofDirection(signalResults, primaryDirection)
             confidence == calculateConfidence(alignedResults, adayStatus, oiAnalysis,
                                               volumeAnalysis, primaryDirection)
             primaryStrategy == reduceBest(alignedResults, None)[1]
         IN IF ~confidence.meetsThreshold
              THEN noSignal
              ELSE [direction |-> primaryDirection,
                    primaryStrategy |-> primaryStrategy.strategyName,
                    contributingStrategies |-> namesOf(alignedResults),
                    confidenceScore |-> confidence.totalScore,
                    meetsThreshold |-> confidence.meetsThreshold,
                    strategyCount |-> Len(alignedResults)]

(***************************************************************************)
(* The clock and the calendar                                              *)
(***************************************************************************)
NextIn(S, t) == CHOOSE u \in S : u > t /\ \A v \in S : v > t => u <= v

NextInstant(t) == NextIn(Instants, t)

\* the engine's and the detectors' day-scoped state, and what is observed of it
DetectorsUnchanged ==
  UNCHANGED <<lastRunDate, lastCheckDate, orbRange, levels, sessionDay, laterResets,
              captured, analyzed, pullback>>

\* the Day Classifier's cache, its calls in flight, and what is observed of them
ClassifierUnchanged == UNCHANGED <<adayFilter, adayCalls, computed>>

\* time passes (while the process waits for a timer or for I/O)
Elapse ==
  /\ \E u \in Instants : u > now
  /\ now' = NextInstant(now)
  /\ lastOp' = "elapse"
  /\ UNCHANGED <<today, minScoreEnv, dailyState, isRunning, todayIsADay, adayDirection,
                 forceAnalyzeMode, signalSent, ticks, batch, aggOut, evaluations,
                 handed, markedSent, lossRecorded>>
  /\ DetectorsUnchanged
  /\ ClassifierUnchanged

(***************************************************************************)
(* SpecSafety: the exported operations of safetyFilter.js, in any order    *)
(***************************************************************************)
PipelineUnchanged ==
  /\ UNCHANGED <<minScoreEnv, isRunning, todayIsADay, adayDirection, forceAnalyzeMode,
                 signalSent, ticks, batch, aggOut, evaluations, handed>>
  /\ DetectorsUnchanged
  /\ ClassifierUnchanged

\* midnight: the date changes; nothing of the process is touched
OpNewDay ==
  /\ today < MaxDays
  /\ today' = today + 1
  /\ now' = FirstInstant
  /\ lastOp' = "newDay"
  /\ markedSent' = {}
  /\ lossRecorded' = 0
  /\ UNCHANGED dailyState
  /\ PipelineUnchanged

OpResetDailyState ==
  /\ dailyState' = resetDailyState(today)
  /\ lastOp' = "resetDailyState"
  /\ markedSent' = {}
  /\ lossRecorded' = 0
  /\ UNCHANGED <<now, today>>
  /\ PipelineUnchanged

OpMarkSignalSent ==
  \E d \in Directions :
    /\ dailyState' = markSignalSent(ensureTodayState(dailyState, today), d, now)
    /\ lastOp' = "markSignalSent"
    /\ markedSent' = markedSent \cup {d}
    /\ UNCHANGED <<now, today, lossRecorded>>
    /\ PipelineUnchanged

OpRecordTrade ==
  \E pnl \in PnlSamples :
    /\ ensureTodayState(dailyState, today).trades < MaxTrades
    /\ dailyState' = recordTrade(ensureTodayState(dailyState, today), pnl)
    /\ lastOp' = "recordTrade"
    /\ lossRecorded' = IF pnl < 0 THEN lossRecorded - pnl ELSE lossRecorded
    /\ UNCHANGED <<now, today, markedSent>>
    /\ PipelineUnchanged

OpLockTrading ==
  /\ dailyState' = lockTrading(ensureTodayState(dailyState, today))
  /\ lastOp' = "lockTrading"
  /\ UNCHANGED <<now, today, markedSent, lossRecorded>>
  /\ PipelineUnchanged

OpUnlockTrading ==
  /\ dailyState' = unlockTrading(ensureTodayState(dailyState, today))
  /\ lastOp' = "unlockTrading"
  /\ UNCHANGED <<now, today, markedSent, lossRecorded>>
  /\ PipelineUnchanged

\* validateSignal({direction, strategy}): its only effect is ensureTodayState();
\* what it returns is validateSignal(dailyState', direction, strategy, now)
OpValidateSignal ==
  /\ dailyState' = ensureTodayState(dailyState, today)
  /\ lastOp' = "validateSignal"
  /\ UNCHANGED <<now, today, markedSent, lossRecorded>>
  /\ PipelineUnchanged

\* the accessors that return a value and write nothing themselves
ReadAccessors ==
  {"hasSignalBeenSent", "isMaxLossHit", "isTradingLocked", "getState", "getDailySummary"}

\* hasSignalBeenSent, isMaxLossHit, isTradingLocked, getState, getDailySummary:
\* each calls ensureTodayState() and then reads dailyState
OpRead ==
  \E accessor \in ReadAccessors :
    /\ dailyState' = ensureTodayState(dailyState, today)
    /\ lastOp' = accessor
    /\ UNCHANGED <<now, today, markedSent, lossRecorded>>
    /\ PipelineUnchanged

\* PullbackStrategy: the fields as the constructor and reset() leave them
PullbackFresh ==
  [firstHourTrend |-> null, trendDetermined |-> FALSE, pullbackDetected |-> FALSE]

InitCommon ==
  /\ now = FirstInstant
  /\ today = 1
  /\ dailyState = InitialDailyState
  /\ isRunning = FALSE
  /\ todayIsADay = FALSE
  /\ adayDirection = null
  /\ forceAnalyzeMode = FALSE
  /\ signalSent = [s \in Strategies |-> FALSE]
  /\ ticks = [i \in 1..MaxTicks |-> [pc |-> "idle"]]
  /\ lastOp = "init"
  /\ handed = [d \in Directions |-> 0]
  /\ evaluations = 0
  /\ markedSent = {}
  /\ lossRecorded = 0
  /\ lastRunDate = None
  /\ lastCheckDate = [s \in Strategies |-> None]
  /\ orbRange = None
  /\ levels = None
  /\ sessionDay = None
  /\ laterResets = [s \in Strategies |-> 0]
  /\ captured = None
  /\ analyzed = [outcomes |-> <<>>, results |-> <<>>]
  /\ adayFilter = [todayADayStatus |-> None, lastCheckDate |-> None]
  /\ adayCalls = [k \in 1..MaxCalls |-> [pc |-> "idle"]]
  /\ computed = [day |-> None, count |-> 0]
  /\ pullback = PullbackFresh

NoBatch == <<>>

InitSafety ==
  /\ InitCommon
  /\ minScoreEnv = None
  /\ batch = NoBatch
  /\ aggOut = noSignal

NextSafety ==
  \/ Elapse
  \/ OpNewDay
  \/ OpResetDailyState
  \/ OpMarkSignalSent
  \/ OpRecordTrade
  \/ OpLockTrading
  \/ OpUnlockTrading
  \/ OpValidateSignal
  \/ OpRead

SpecSafety == InitSafety /\ [][NextSafety]_vars

(***************************************************************************)
(* SpecAgg: aggregateSignals applied to one batch of detector results      *)
(***************************************************************************)
\* what the detectors and analyzers report (they read the market)
ScoreSamples == {5, 15}

DetectorOutcomes ==
  {[signal |-> null, score |-> 0]}
    \cup [signal : Directions, score : ScoreSamples]

ADaySamples ==
  { [isADay |-> FALSE, direction |-> null],
    [isADay |-> TRUE, direction |-> "BULLISH"],
    [isADay |-> TRUE, direction |-> "BEARISH"] }

\* the analyzers' results: both failed ({}), a strong bullish reading, a weak
\* bearish one
AnalyzerSamples ==
  { [oiAnalysis |-> [empty |-> TRUE, pcrRatio |-> 0, maxPain |-> 0, spotPrice |-> 0,
                     oiBuildUp |-> FALSE],
     volumeAnalysis |-> [volumeRatio |-> None]],
    [oiAnalysis |-> [empty |-> FALSE, pcrRatio |-> 130, maxPain |-> 22000,
                     spotPrice |-> 22100, oiBuildUp |-> TRUE],
     volumeAnalysis |-> [volumeRatio |-> Some(250)]],
    [oiAnalysis |-> [empty |-> FALSE, pcrRatio |-> 70, maxPain |-> 22000,
                     spotPrice |-> 22500, oiBuildUp |-> FALSE],
     volumeAnalysis |-> [volumeRatio |-> Some(120)]] }

MinScoreEnvSamples == {None, Some(70)}

\* what checkADay and the detectors report to the orchestrator
StartDaySamples == {a \in ADaySamples : a.direction # "BEARISH"}
FiredSamples == {o \in DetectorOutcomes : o.score = 15}
SessionAnalyzerSamples == {z \in AnalyzerSamples : z.oiAnalysis.pcrRatio # 70}
FiringSamples(armed) == {f \in SUBSET armed : Cardinality(f) <= 1 \/ f = armed}

\* runStrategies: { strategyName: name, ...result } for each detector, in
\* registration order
resultsOf(names, outcome) ==
  [i \in 1..Len(names) |->
     [strategyName |-> names[i], signal |-> outcome[names[i]].signal,
      score |-> outcome[names[i]].score]]

Pending == [direction |-> "pending"]

InitAgg ==
  /\ InitCommon
  /\ minScoreEnv \in MinScoreEnvSamples
  /\ \E outcome \in [Strategies -> DetectorOutcomes], a \in ADaySamples,
        z \in AnalyzerSamples :
        batch = [strategyResults |-> resultsOf(StrategyOrder, outcome),
                 adayStatus |-> a, oiAnalysis |-> z.oiAnalysis,
                 volumeAnalysis |-> z.volumeAnalysis]
  /\ aggOut = Pending

Aggregate ==
  /\ aggOut = Pending
  /\ aggOut' = aggregateSignals(batch.strategyResults, batch.adayStatus,
                                batch.oiAnalysis, batch.volumeAnalysis)
  /\ lastOp' = "aggregateSignals"
  /\ UNCHANGED <<now, today, minScoreEnv, dailyState, isRunning, todayIsADay,
                 adayDirection, forceAnalyzeMode, signalSent, ticks, batch, evaluations, handed, markedSent, lossRecorded>>
  /\ DetectorsUnchanged
  /\ ClassifierUnchanged

NextAgg == Aggregate

SpecAgg == InitAgg /\ [][NextAgg]_vars

(***************************************************************************)
(* Spec: the orchestrator of index.js                                      *)
(***************************************************************************)
Idle == [pc |-> "idle"]

\* an evaluation between its last await and its return: nothing else runs
\* until it has returned
NoneReturning == \A i \in 1..MaxTicks : ticks[i].pc # "returned"

InProgress == {i \in 1..MaxTicks : ticks[i].pc \in {"runStrategies", "selectStrike", "sendAlert"}}

HasFreeSlot == \E i \in 1..MaxTicks : ticks[i].pc = "idle"

FreeSlot ==
  CHOOSE i \in 1..MaxTicks :
    ticks[i].pc = "idle" /\ \A j \in 1..MaxTicks : ticks[j].pc = "idle" => i <= j

\* The clock readings the orchestrator is observed at.
SessionInstants ==
  { marketOpen, timeToMinutes(10, 15), timeToMinutes(10, 30), timeToMinutes(10, 31),
    marketClose }

NextSessionInstant(t) == NextIn(SessionInstants, t)

\* time passes (while the process waits for a timer or for I/O)
SessionElapse ==
  /\ NoneReturning
  /\ \E u \in SessionInstants : u > now
  /\ now' = NextSessionInstant(now)
  /\ UNCHANGED <<today, minScoreEnv, dailyState, isRunning, todayIsADay, adayDirection,
                 forceAnalyzeMode, signalSent, ticks, batch, aggOut, lastOp, evaluations,
                 handed, markedSent, lossRecorded>>
  /\ DetectorsUnchanged
  /\ ClassifierUnchanged

\* the minutes the three checkSignals schedules fire at: 9:31 .. 15:29
cronMinute(t) == timeToMinutes(9, 31) <= t /\ t <= timeToMinutes(15, 29)

\* variant: every registered detector, whatever the time
activeStrategies_All(t) == Strategies

\* runStrategies: this.strategies.filter(strategy => strategy.isInTimeWindow())
activeStrategies(t) == {s \in Strategies : isInTimeWindow(s, t)}

inOrder(active) == SelectSeq(StrategyOrder, LAMBDA s : s \in active)

\* what the orchestrator's steps other than startDay leave alone
SafetyObservationsUnchanged ==
  /\ UNCHANGED <<lastOp, markedSent, lossRecorded, batch, aggOut>>
  /\ DetectorsUnchanged
  /\ ClassifierUnchanged

\* BaseStrategy.reset and its overrides, for every detector (strategyEngine.resetAll)
NoCheckDates == [s \in Strategies |-> None]

NoResets == [s \in Strategies |-> 0]

\* startDay(), fired by the 9:15 schedule: the resets (resetDailyState, and
\* strategyEngine.resetAll: every detector's reset(), then lastRunDate), then
\* login and checkADay (either may throw, which leaves isRunning as it was)
StartDay ==
  /\ NoneReturning
  /\ now = marketOpen
  /\ ~isRunning
  /\ dailyState' = resetDailyState(today)
  /\ signalSent' = [s \in Strategies |-> FALSE]
  /\ lastCheckDate' = NoCheckDates
  /\ orbRange' = None
  /\ levels' = None
  /\ lastRunDate' = Some(today)
  /\ sessionDay' = Some(today)
  /\ laterResets' = NoResets
  /\ pullback' = PullbackFresh
  /\ UNCHANGED <<captured, analyzed>>
  /\ ClassifierUnchanged
  /\ \/ \E adayResult \in StartDaySamples :
          /\ todayIsADay' = adayResult.isADay
          /\ adayDirection' = adayResult.direction
          /\ isRunning' = TRUE
     \/ UNCHANGED <<todayIsADay, adayDirection, isRunning>>
  /\ UNCHANGED <<now, today, minScoreEnv, forceAnalyzeMode, ticks, evaluations,
                 handed>>
  /\ UNCHANGED <<lastOp, markedSent, lossRecorded, batch, aggOut>>

\* endDay(), fired by the 15:30 schedule
EndDay ==
  /\ NoneReturning
  /\ now = marketClose
  /\ isRunning
  /\ isRunning' = FALSE
  /\ todayIsADay' = FALSE
  /\ adayDirection' = null
  /\ UNCHANGED <<now, today, minScoreEnv, dailyState, forceAnalyzeMode, signalSent, ticks,
                 evaluations, handed>>
  /\ SafetyObservationsUnchanged

\* POST /lock
Lock ==
  /\ NoneReturning
  /\ dailyState' = lockTrading(ensureTodayState(dailyState, today))
  /\ UNCHANGED <<now, today, minScoreEnv, isRunning, todayIsADay, adayDirection,
                 forceAnalyzeMode, signalSent, ticks, evaluations, handed>>
  /\ SafetyObservationsUnchanged

\* POST /unlock
Unlock ==
  /\ NoneReturning
  /\ dailyState' = unlockTrading(ensureTodayState(dailyState, today))
  /\ UNCHANGED <<now, today, minScoreEnv, isRunning, todayIsADay, adayDirection,
                 forceAnalyzeMode, signalSent, ticks, evaluations, handed>>
  /\ SafetyObservationsUnchanged

\* POST /force-analyze/on and /off
ForceAnalyze ==
  /\ NoneReturning
  /\ \E on \in BOOLEAN : on # forceAnalyzeMode /\ forceAnalyzeMode' = on
  /\ UNCHANGED <<now, today, minScoreEnv, dailyState, isRunning, todayIsADay,
                 adayDirection, signalSent, ticks, evaluations, handed>>
  /\ SafetyObservationsUnchanged

\* runStrategyEngine() up to its first await: the guards, the context, and
\* runStrategies picking the detectors that are inside their window; each of
\* those reads its signalSent flag before it awaits market data
runStrategyEngineStarts(manual, t) ==
  /\ isRunning
  /\ todayIsADay \/ forceAnalyzeMode
  /\ activeStrategies(t) # {}
  /\ ticks' = [ticks EXCEPT ![FreeSlot] =
                 [pc |-> "runStrategies", manual |-> manual,
                  adayStatus |-> [isADay |-> todayIsADay, direction |-> adayDirection],
                  active |-> activeStrategies(t),
                  armed |-> {s \in activeStrategies(t) : ~signalSent[s]}]]

\* the next minute begins and the per-minute schedule calls checkSignals(),
\* whatever is still in flight
CronCheckSignals ==
  /\ NoneReturning
  /\ \E u \in SessionInstants : u > now
  /\ cronMinute(NextSessionInstant(now))
  /\ HasFreeSlot
  /\ evaluations < MaxEvaluations
  /\ now' = NextSessionInstant(now)
  /\ evaluations' = evaluations + 1
  /\ isMarketOpen(NextSessionInstant(now))
  /\ runStrategyEngineStarts(FALSE, NextSessionInstant(now))
  /\ UNCHANGED <<today, minScoreEnv, dailyState, isRunning, todayIsADay,
                 adayDirection, forceAnalyzeMode, signalSent, handed>>
  /\ SafetyObservationsUnchanged

\* POST /check-signals
ManualCheckSignals ==
  /\ NoneReturning
  /\ evaluations < MaxEvaluations
  /\ HasFreeSlot
  /\ evaluations' = evaluations + 1
  /\ runStrategyEngineStarts(TRUE, now)
  /\ UNCHANGED <<now, today, minScoreEnv, dailyState, isRunning, todayIsADay,
                 adayDirection, forceAnalyzeMode, signalSent, handed>>
  /\ SafetyObservationsUnchanged

\* what a detector that found its flag set, or nothing in the market, returns
NoDetection == [signal |-> null, score |-> 0]

\* the tick after runStrategyEngine() returned signal: the request is answered
\* (manual), or checkSignals goes on into processAggregatedSignal up to its
\* first await
afterAggregation(tick, signal, total, ds) ==
  IF tick.manual \/ signal = noSignal
    THEN [pc |-> "returned", total |-> total, signal |-> signal, reason |-> null]
    ELSE LET validation == validateSignal(ds, signal.direction, signal.primaryStrategy,
                                          now)
         IN IF ~validation.isValid
              THEN [pc |-> "returned", total |-> total, signal |-> signal,
                    reason |-> validation.reason]
              ELSE [pc |-> "selectStrike", total |-> total, signal |-> signal,
                    reason |-> validation.reason]

\* the detectors and the analyzers have answered: runStrategies returns, the
\* signals are aggregated, and checkSignals passes an emitted signal on; an
\* analyzer that threw has answered {} (.catch(() => ({}))), which a tick that
\* goes on keeps as analyzersFailed
StrategiesAnswer(i) ==
  /\ ticks[i].pc = "runStrategies"
  /\ \E fired \in FiringSamples(ticks[i].armed), found \in FiredSamples,
        z \in SessionAnalyzerSamples :
       LET outcome == [s \in Strategies |-> IF s \in fired THEN found ELSE NoDetection]
           strategyResults == resultsOf(inOrder(ticks[i].active), outcome)
           signal == aggregateSignals(strategyResults, ticks[i].adayStatus,
                                      z.oiAnalysis, z.volumeAnalysis)
           signalResults == SelectSeq(strategyResults, hasSignal)
           total ==
             IF Len(signalResults) = 0
               THEN None
               ELSE Some(calculateConfidence(
                           ofDirection(signalResults, primaryDirectionOf(signalResults)),
                           ticks[i].adayStatus, z.oiAnalysis, z.volumeAnalysis,
                           primaryDirectionOf(signalResults)).totalScore)
           ds == IF ticks[i].manual \/ signal = noSignal
                   THEN dailyState
                   ELSE ensureTodayState(dailyState, today)
       IN /\ signalSent' = [s \in Strategies |->
                              signalSent[s] \/ outcome[s].signal # null]
          /\ dailyState' = ds
          /\ ticks' = [ticks EXCEPT ![i] =
                          LET after == afterAggregation(ticks[i], signal, total, ds)
                          IN IF after.pc = "selectStrike"
                               THEN after @@ [analyzersFailed |-> z.oiAnalysis.empty]
                               ELSE after]
  /\ UNCHANGED <<now, today, minScoreEnv, isRunning, todayIsADay, adayDirection,
                 forceAnalyzeMode, evaluations, handed>>
  /\ SafetyObservationsUnchanged

\* checkSignals (or the request handler) has returned
Returns(i) ==
  /\ ticks[i].pc = "returned"
  /\ ticks' = [ticks EXCEPT ![i] = Idle]
  /\ UNCHANGED <<now, today, minScoreEnv, dailyState, isRunning, todayIsADay,
                 adayDirection, forceAnalyzeMode, signalSent, evaluations,
                 handed>>
  /\ SafetyObservationsUnchanged

\* what processAggregatedSignal logs last
LogFailed == "Failed to process signal"
LogSent == "Signal processed and alert sent"

\* variant: a failed step is logged as a sent alert
processed_AlwaysSent(tick, log) == [tick EXCEPT !.pc = "returned", !.reason = LogSent]

\* processAggregatedSignal about to return, after its last log entry
processed(tick, log) == [tick EXCEPT !.pc = "returned", !.reason = log]

\* optionChainService.selectStrike settles: it throws (the catch logs and the
\* tick ends), or the enriched signal is passed to alertService.sendAlert
SelectStrikeSettles(i) ==
  /\ ticks[i].pc = "selectStrike"
  /\ \/ /\ ticks' = [ticks EXCEPT ![i] = processed(ticks[i], LogFailed)]
        /\ UNCHANGED handed
     \/ /\ ticks' = [ticks EXCEPT ![i] =
                       [pc |-> "sendAlert", total |-> ticks[i].total,
                        signal |-> ticks[i].signal, reason |-> ticks[i].reason,
                        analyzersFailed |-> ticks[i].analyzersFailed,
                        handedAt |-> now]]
        /\ handed' = [handed EXCEPT ![ticks[i].signal.direction] =
                        min(MaxHanded, @ + 1)]
  /\ UNCHANGED <<now, today, minScoreEnv, dailyState, isRunning, todayIsADay,
                 adayDirection, forceAnalyzeMode, signalSent, evaluations>>
  /\ SafetyObservationsUnchanged

\* alertService.sendAlert settles: markSignalSent runs only if it did not
\* throw; either way the last log entry is written and the tick ends
SendAlertSettles(i) ==
  /\ ticks[i].pc = "sendAlert"
  /\ \/ /\ dailyState' = markSignalSent(ensureTodayState(dailyState, today),
                                        ticks[i].signal.direction, now)
        /\ ticks' = [ticks EXCEPT ![i] = processed(ticks[i], LogSent)]
     \/ /\ UNCHANGED dailyState
        /\ ticks' = [ticks EXCEPT ![i] = processed(ticks[i], LogFailed)]
  /\ UNCHANGED <<now, today, minScoreEnv, isRunning, todayIsADay, adayDirection,
                 forceAnalyzeMode, signalSent, evaluations, handed>>
  /\ SafetyObservationsUnchanged

Init ==
  /\ InitCommon
  /\ minScoreEnv \in MinScoreEnvSamples
  /\ batch = NoBatch
  /\ aggOut = noSignal

Next ==
  \/ SessionElapse
  \/ StartDay
  \/ EndDay
  \/ Lock
  \/ Unlock
  \/ ForceAnalyze
  \/ CronCheckSignals
  \/ ManualCheckSignals
  \/ \E i \in 1..MaxTicks : StrategiesAnswer(i)
  \/ \E i \in 1..MaxTicks : Returns(i)
  \/ \E i \in 1..MaxTicks : SelectStrikeSettles(i)
  \/ \E i \in 1..MaxTicks : SendAlertSettles(i)

Spec == Init /\ [][Next]_vars

(***************************************************************************)
(* SpecDay: the day-scoped state of the engine and of the detectors        *)
(***************************************************************************)
\* the spot price when the key levels are computed
PriceSamples == {22040, 22160}

\* SRStrategy.getNearestRoundNumbers(price, 100)
getNearestRoundNumbers(price, interval) ==
  [nearestBelow |-> (price \div interval) * interval,
   nearestAbove |-> (price \div interval) * interval + interval]

\* SRStrategy.initializeLevels when this.levels is not set: the previous day's
\* levels and pivots are the same all day; the round numbers are those around
\* the last close at the time of the call
initializeLevels(currentPrice) ==
  [roundAbove |-> getNearestRoundNumbers(currentPrice, 100).nearestAbove,
   roundBelow |-> getNearestRoundNumbers(currentPrice, 100).nearestBelow]

\* ORBStrategy.captureORBRange when nothing is captured yet: the first
\* 15-minute candle of the day, stamped with the time of the call
captureORBRange(t) == [captured |-> TRUE, captureTime |-> t]

\* strategyEngine.checkDayReset and BaseStrategy.checkDayReset: the stamp is
\* not today's
dayChanged(stamp, day) == stamp # Some(day)

\* variant: a detector that has fired returns its earlier signal again
AlreadySent_Repeats == [signal |-> "BUY_CE", score |-> 15, reasons |-> <<"neutral">>]

\* what an analyze call returns (signal, score, reasons by status)
AlreadySent == [signal |-> null, score |-> 0, reasons |-> <<"neutral">>]
NothingFound == [signal |-> null, score |-> 0, reasons |-> <<"fail">>]
Found(o) == [signal |-> o.signal, score |-> o.score, reasons |-> <<"pass">>]

\* runStrategies, the catch of one detector's analyze
caughtResult(name) ==
  [strategyName |-> name, signal |-> null, score |-> 0, reasons |-> <<"fail">>,
   error |-> TRUE]

\* runStrategies, one detector's entry: { strategyName: name, ...result }, or
\* the catch (outcome None: analyze threw)
settled(name, outcome) ==
  IF outcome = None
    THEN caughtResult(name)
    ELSE [strategyName |-> name, signal |-> outcome[1].signal, score |-> outcome[1].score,
          reasons |-> outcome[1].reasons, error |-> FALSE]

\* variant: no catch around analyze, so one rejection rejects Promise.all and
\* runStrategyEngine's own catch returns null
collectResults_AllOrNothing(order, outcomes) ==
  IF \E i \in 1..Len(order) : outcomes[order[i]] = None
    THEN <<>>
    ELSE [i \in 1..Len(order) |-> settled(order[i], outcomes[order[i]])]

\* runStrategies: Promise.all over the active detectors, in registration order
collectResults(order, outcomes) ==
  [i \in 1..Len(order) |-> settled(order[i], outcomes[order[i]])]

\* The clock readings the detectors' state is observed at.
DayInstants ==
  { marketOpen, timeToMinutes(9, 30), timeToMinutes(9, 45), marketClose }

\* time passes (while the process waits for a timer)
DayElapse ==
  /\ \E u \in DayInstants : u > now
  /\ now' = NextIn(DayInstants, now)
  /\ lastOp' = "elapse"
  /\ UNCHANGED <<today, minScoreEnv, dailyState, isRunning, todayIsADay, adayDirection,
                 forceAnalyzeMode, signalSent, ticks, batch, aggOut, evaluations,
                 handed, markedSent, lossRecorded>>
  /\ DetectorsUnchanged
  /\ ClassifierUnchanged

\* the analyzers' reading during these evaluations
DayAnalyzerSamples == {z \in SessionAnalyzerSamples : ~z.oiAnalysis.empty}

\* captureORB(), fired by the 9:30 schedule: captureORBRange (which may find no
\* candle yet, or throw, which skips the rest), then initializeLevels
CaptureORB ==
  /\ now = timeToMinutes(9, 30)
  /\ isRunning
  /\ IF captured = None THEN TRUE ELSE captured[1].day # today
  /\ \E orb \in {"captured", "no data", "throws"}, price \in PriceSamples, lv \in BOOLEAN :
       /\ orbRange' = IF orbRange # None \/ orb # "captured"
                        THEN orbRange ELSE Some(captureORBRange(now))
       /\ levels' = IF levels # None \/ orb = "throws" \/ ~lv
                      THEN levels ELSE Some(initializeLevels(price))
  /\ captured' = Some([day |-> today, orbRange |-> orbRange', levels |-> levels'])
  /\ lastOp' = "captureORB"
  /\ UNCHANGED <<now, today, minScoreEnv, dailyState, isRunning, todayIsADay, adayDirection,
                 forceAnalyzeMode, signalSent, ticks, batch, aggOut, evaluations, handed,
                 markedSent, lossRecorded>>
  /\ UNCHANGED <<lastRunDate, lastCheckDate, sessionDay, laterResets, analyzed, pullback>>
  /\ ClassifierUnchanged

\* runStrategyEngine() run to its end with no other evaluation in flight:
\* strategyEngine.checkDayReset, the detectors inside their window, each one's
\* analyze (checkDayReset, then its own state, then the market), the
\* analyzers and aggregateSignals
RunStrategyEngine ==
  /\ isRunning
  /\ todayIsADay \/ forceAnalyzeMode
  /\ LET \* strategyEngine.checkDayReset -> resetAll
         engineResets == dayChanged(lastRunDate, today)
         check0 == IF engineResets THEN NoCheckDates ELSE lastCheckDate
         sent0 == IF engineResets THEN [s \in Strategies |-> FALSE] ELSE signalSent
         orb0 == IF engineResets THEN None ELSE orbRange
         lev0 == IF engineResets THEN None ELSE levels
         active == activeStrategies(now)
         \* BaseStrategy.checkDayReset at the head of each analyze
         resets == {s \in active : dayChanged(check0[s], today)}
         sent1 == [s \in Strategies |-> IF s \in resets THEN FALSE ELSE sent0[s]]
         orb1 == IF "ORB" \in resets THEN None ELSE orb0
         lev1 == IF "SR" \in resets THEN None ELSE lev0
     IN \E thrown \in {t \in SUBSET active : Cardinality(t) <= 1},
           orbOK \in BOOLEAN, price \in PriceSamples,
           found \in FiredSamples, z \in DayAnalyzerSamples :
          LET \* ORBStrategy.analyze: captureORBRange when nothing is captured
              orb2 == IF "ORB" \in active \ thrown /\ orb1 = None /\ orbOK
                        THEN Some(captureORBRange(now)) ELSE orb1
              armed == {s \in active \ thrown :
                          ~sent1[s] /\ (s = "ORB" => orb2 # None)}
              \* SRStrategy.analyze: initializeLevels after the signalSent check
              lev2 == IF "SR" \in armed /\ lev1 = None
                        THEN Some(initializeLevels(price)) ELSE lev1
          IN \E fired \in FiringSamples(armed) :
               LET outcomes ==
                     [s \in active |->
                        IF s \in thrown THEN None
                        ELSE IF s \in fired THEN Some(Found(found))
                        ELSE IF sent1[s] /\ (s = "ORB" => orb2 # None)
                          THEN Some(AlreadySent)
                        ELSE Some(NothingFound)]
                   results == collectResults(inOrder(active), outcomes)
                   adayStatus == [isADay |-> todayIsADay, direction |-> adayDirection]
               IN /\ lastRunDate' = Some(today)
                  /\ lastCheckDate' = [s \in Strategies |->
                                         IF s \in active THEN Some(today) ELSE check0[s]]
                  /\ signalSent' = [s \in Strategies |-> sent1[s] \/ s \in fired]
                  /\ orbRange' = orb2
                  /\ levels' = lev2
                  /\ laterResets' = [s \in Strategies |->
                                       laterResets[s]
                                         + (IF engineResets THEN 1 ELSE 0)
                                         + (IF s \in resets THEN 1 ELSE 0)]
                  /\ analyzed' = [outcomes |-> outcomes, results |-> results]
                  /\ IF Len(results) = 0
                       THEN /\ aggOut' = noSignal
                            /\ UNCHANGED batch
                       ELSE /\ batch' = [strategyResults |-> results,
                                         adayStatus |-> adayStatus,
                                         oiAnalysis |-> z.oiAnalysis,
                                         volumeAnalysis |-> z.volumeAnalysis]
                            /\ aggOut' = aggregateSignals(results, adayStatus, z.oiAnalysis,
                                                          z.volumeAnalysis)
  /\ lastOp' = "runStrategyEngine"
  /\ UNCHANGED <<now, today, minScoreEnv, dailyState, isRunning, todayIsADay, adayDirection,
                 forceAnalyzeMode, ticks, evaluations, handed, markedSent, lossRecorded>>
  \* the pullback detector's window opens after the instants of this day
  /\ UNCHANGED <<sessionDay, captured, pullback>>
  /\ ClassifierUnchanged

InitDay ==
  /\ InitCommon
  /\ minScoreEnv = None
  /\ batch = NoBatch
  /\ aggOut = noSignal

NextDay ==
  \/ DayElapse
  \/ StartDay
  \/ EndDay
  \/ CaptureORB
  \/ RunStrategyEngine

SpecDay == InitDay /\ [][NextDay]_vars

(***************************************************************************)
(* SpecClassifier: checkADay of adayFilter.js, called at any time and by   *)
(* any caller (startDay, GET /aday-check), calls overlapping               *)
(***************************************************************************)
\* The previous day's daily candle as the broker returns it.
CandleSamples ==
  { [open |-> 18000, high |-> 18150, low |-> 17980, close |-> 18130],
    [open |-> 18020, high |-> 18100, low |-> 18000, close |-> 18080],
    [open |-> 18080, high |-> 18100, low |-> 18000, close |-> 18020],
    [open |-> 18020, high |-> 18100, low |-> 18000, close |-> 18079],
    [open |-> 18020, high |-> 18099, low |-> 18000, close |-> 18080],
    [open |-> 18000, high |-> 18000, low |-> 18000, close |-> 18000],
    [open |-> 18020, high |-> 18000, low |-> 18000, close |-> 18080],
    [open |-> 18080, high |-> 18170, low |-> 18000, close |-> 18080] }

\* The candle's volume and the 20-day average volume (an index feed reports
\* volume 0 for every day).
VolumeSamples ==
  { [volume |-> 0, avgVolume |-> 0], [volume |-> 50, avgVolume |-> 0],
    [volume |-> 99, avgVolume |-> 100], [volume |-> 100, avgVolume |-> 100],
    [volume |-> 200, avgVolume |-> 100] }

\* the Number n / d: for d = 0 it is Infinity (n > 0) or NaN (n = 0)
Ratio(n, d) == [n |-> n, d |-> d]

\* r >= p / q for a Ratio of non-negative numbers: false for NaN
atLeast(r, p, q) == IF r.d = 0 THEN r.n > 0 ELSE r.n * q >= p * r.d

Pow10(digits) == IF digits = 0 THEN 1 ELSE 10

\* (r * 100).toFixed(digits), as the number of 10^-digits percent it shows;
\* None for "NaN" and "Infinity"
toFixedPct(r, digits) ==
  IF r.d = 0
    THEN None
    ELSE Some((2 * r.n * 100 * Pow10(digits) + r.d) \div (2 * r.d))

calculateBodyRatio(candle) ==
  LET range == candle.high - candle.low
      body == abs(candle.close - candle.open)
  IN IF range = 0 THEN Ratio(0, 1) ELSE Ratio(body, range)

calculateRange(candle) == candle.high - candle.low

\* variant: the directions swapped
getCandleDirection_Inverted(candle) ==
  IF candle.close >= candle.open THEN "BEARISH" ELSE "BULLISH"

getCandleDirection(candle) ==
  IF candle.close >= candle.open THEN "BULLISH" ELSE "BEARISH"

\* the denominators of the divisions checkADay performs
divisors(prevCandle, avgVolume) ==
  (IF calculateRange(prevCandle) = 0 THEN {} ELSE {calculateRange(prevCandle)})
    \cup {avgVolume}

\* checkADay from the fetched candle and average to its result
checkADay(prevCandle, avgVolume) ==
  LET bodyRatio == calculateBodyRatio(prevCandle)
      range == calculateRange(prevCandle)
      direction == getCandleDirection(prevCandle)
      volumeRatio == Ratio(prevCandle.volume, avgVolume)
      isBodyStrong == atLeast(bodyRatio, 6, 10)
      isRangeStrong == range >= 100
      isVolumeStrong == atLeast(volumeRatio, 1, 1)
      isADay == isBodyStrong /\ isRangeStrong /\ isVolumeStrong
  IN [isADay |-> isADay,
      direction |-> IF isADay THEN direction ELSE null,
      data |-> [open |-> prevCandle.open, high |-> prevCandle.high,
                low |-> prevCandle.low, close |-> prevCandle.close,
                volume |-> prevCandle.volume,
                bodyRatio |-> toFixedPct(bodyRatio, 1),
                range |-> range,
                volumeRatio |-> toFixedPct(volumeRatio, 0),
                direction |-> direction,
                avgVolume |-> avgVolume]]

\* checkADay's cache test
isCached(day) ==
  adayFilter.lastCheckDate = Some(day) /\ adayFilter.todayADayStatus # None

ClassifierFrame ==
  /\ UNCHANGED <<now, today, minScoreEnv, dailyState, isRunning, todayIsADay,
                 adayDirection, forceAnalyzeMode, signalSent, ticks, batch, aggOut,
                 evaluations, handed, markedSent, lossRecorded>>
  /\ DetectorsUnchanged

\* checkADay() finds today's result cached and returns it
CheckADayCached(k) ==
  /\ adayCalls[k].pc = "idle"
  /\ isCached(today)
  /\ lastOp' = "checkADay: cached"
  /\ UNCHANGED <<adayFilter, adayCalls, computed>>
  /\ ClassifierFrame

\* checkADay() finds nothing cached for today and awaits the broker
CheckADayFetches(k) ==
  /\ adayCalls[k].pc = "idle"
  /\ ~isCached(today)
  /\ adayCalls' = [adayCalls EXCEPT ![k] = [pc |-> "fetching", today |-> today]]
  /\ lastOp' = "checkADay: fetching"
  /\ UNCHANGED <<adayFilter, computed>>
  /\ ClassifierFrame

\* the broker has answered: the result is computed, cached under the date
\* read at the start of the call, and returned
CheckADayComputes(k) ==
  /\ adayCalls[k].pc = "fetching"
  /\ \E c \in CandleSamples, v \in VolumeSamples :
       adayFilter' =
         [todayADayStatus |-> Some(checkADay(c @@ [volume |-> v.volume], v.avgVolume)),
          lastCheckDate |-> Some(adayCalls[k].today)]
  /\ computed' = IF computed.day = Some(today)
                   THEN [computed EXCEPT !.count = min(MaxComputed, @ + 1)]
                   ELSE [day |-> Some(today), count |-> 1]
  /\ adayCalls' = [adayCalls EXCEPT ![k] = [pc |-> "idle"]]
  /\ lastOp' = "checkADay: computed"
  /\ ClassifierFrame

\* a broker call rejected: checkADay logs and rethrows, nothing is cached
CheckADayThrows(k) ==
  /\ adayCalls[k].pc = "fetching"
  /\ adayCalls' = [adayCalls EXCEPT ![k] = [pc |-> "idle"]]
  /\ lastOp' = "checkADay: threw"
  /\ UNCHANGED <<adayFilter, computed>>
  /\ ClassifierFrame

InitClassifier ==
  /\ InitCommon
  /\ minScoreEnv = None
  /\ batch = NoBatch
  /\ aggOut = noSignal

NextClassifier ==
  \/ OpNewDay
  \/ \E k \in 1..MaxCalls : CheckADayCached(k)
  \/ \E k \in 1..MaxCalls : CheckADayFetches(k)
  \/ \E k \in 1..MaxCalls : CheckADayComputes(k)
  \/ \E k \in 1..MaxCalls : CheckADayThrows(k)

SpecClassifier == InitClassifier /\ [][NextClassifier]_vars

(***************************************************************************)
(* SpecScore: one detector's analyze along each of its scoring paths, and  *)
(* the confidence breakdown built from its result                          *)
(***************************************************************************)
\* the detectors whose analyze is scored here (the EXPIRY class is not among
\* the sources)
ScoredDetectors == Strategies \ {"EXPIRY"}

\* super(name, timeWindow, maxScore) in each detector's constructor
declaredMax(s) == IF s = "DAY_BEHAVIOR" THEN 10 ELSE 15

\* The conditions analyze branches on, per detector.
Paths(s) ==
  CASE s = "ORB" -> [breakout : BOOLEAN, aligns : BOOLEAN, spike : BOOLEAN]
    [] s = "PULLBACK" ->
         [trend : BOOLEAN, ema : BOOLEAN, pullback : BOOLEAN, breakout : BOOLEAN,
          aligns : BOOLEAN]
    [] s = "VWAP" ->
         [crossover : BOOLEAN, volume : {"spike", "average", "low"}, aligns : BOOLEAN]
    [] s = "SR" ->
         [interaction : {"none", "BREAKOUT", "REJECTION"}, near : BOOLEAN,
          aligns : BOOLEAN, trend : BOOLEAN]
    [] s = "DAY_BEHAVIOR" ->
         [aligns : BOOLEAN, gap : BOOLEAN, level : BOOLEAN, momentum : BOOLEAN]

bonus(condition, points) == IF condition THEN points ELSE 0

\* variant: the volume bonus of the breakout detector is 5
orbScore_BigBonus(p) ==
  IF ~p.breakout THEN 0 ELSE 10 + bonus(p.aligns, 3) + bonus(p.spike, 5)

\* ORBStrategy.analyze: breakout 10, A-Day alignment 3, volume spike 2
orbScore(p) ==
  IF ~p.breakout THEN 0 ELSE 10 + bonus(p.aligns, 3) + bonus(p.spike, 2)

\* PullbackStrategy.analyze: trend 5, pullback 3, continuation 5, alignment 2
\* (only with a signal)
pullbackScore(p) ==
  IF ~p.trend THEN 0
  ELSE IF ~p.ema THEN 5
  ELSE 5 + bonus(p.pullback, 3) + bonus(p.pullback /\ p.breakout, 5)
         + bonus(p.pullback /\ p.breakout /\ p.aligns, 2)

\* VWAPStrategy.analyze: no crossover: 5 when the price position is aligned;
\* crossover 8, volume 5 or 2
vwapScore(p) ==
  IF ~p.crossover
    THEN bonus(p.aligns, 5)
    ELSE 8 + (IF p.volume = "spike" THEN 5 ELSE IF p.volume = "average" THEN 2 ELSE 0)

\* SRStrategy.analyze: no interaction: 3 near a level; breakout 10 or
\* rejection 8, alignment 3, trend 2
srScore(p) ==
  IF p.interaction = "none"
    THEN bonus(p.near, 3)
    ELSE (IF p.interaction = "BREAKOUT" THEN 10 ELSE 8)
           + bonus(p.aligns, 3) + bonus(p.trend, 2)

\* DayBehaviorStrategy.analyze: day direction 3, gap 2, previous-day level 3,
\* momentum 2
dayBehaviorScore(p) ==
  bonus(p.aligns, 3) + bonus(p.gap, 2) + bonus(p.level, 3) + bonus(p.momentum, 2)

\* the score of the result analyze returns
analyzeScore(s, p) ==
  CASE s = "ORB" -> orbScore(p)
    [] s = "PULLBACK" -> pullbackScore(p)
    [] s = "VWAP" -> vwapScore(p)
    [] s = "SR" -> srScore(p)
    [] s = "DAY_BEHAVIOR" -> dayBehaviorScore(p)

\* maxScore: result.maxScore || 15 (a detector's result carries no maxScore)
DefaultCategoryMax == 15

\* calculateConfidence's breakdown for one detector result
breakdownOf(result, adayStatus, oiAnalysis, volumeAnalysis, signalDirection) ==
  [adayAlignment |-> [score |-> scoreAdayAlignment(adayStatus, signalDirection),
                      maxScore |-> ADAY_ALIGNMENT],
   strategy |-> IF result.score > 0 /\ getCategoryKey(result.strategyName) # null
                  THEN Some([key |-> getCategoryKey(result.strategyName),
                             score |-> result.score, maxScore |-> DefaultCategoryMax])
                  ELSE None,
   oiSupport |-> [score |-> scoreOISupport(oiAnalysis, signalDirection),
                  maxScore |-> OI_SUPPORT],
   volumeSpike |-> [score |-> scoreVolumeSpike(volumeAnalysis), maxScore |-> VOLUME_SPIKE],
   optionGreeks |-> [score |-> scoreOptionGreeks, maxScore |-> OPTION_GREEKS]]

\* a path with an alignment bonus needs an A-Day of the signal's direction
Feasible(i) ==
  i.path.aligns
    => /\ i.adayStatus.isADay
       /\ i.adayStatus.direction = "BULLISH" <=> i.signalDirection = "BUY_CE"

\* volume ratios in hundredths: undefined, null, and both sides of each tier
\* boundary of scoreVolumeSpike
RatioSamples ==
  {None, Some(0), Some(99), Some(100), Some(149), Some(150), Some(199), Some(200),
   Some(250)}

\* the analyzers' results with each of the volume ratios
ScoreAnalyzerSamples ==
  {[oiAnalysis |-> z.oiAnalysis, volumeAnalysis |-> [volumeRatio |-> v]] :
     z \in AnalyzerSamples, v \in RatioSamples}

ScoreInputs ==
  {i \in UNION {[detector : {s}, path : Paths(s), adayStatus : ADaySamples,
                 analysis : ScoreAnalyzerSamples, signalDirection : Directions] :
                  s \in ScoredDetectors} : Feasible(i)}

InitScore ==
  /\ InitCommon
  /\ minScoreEnv = None
  /\ batch \in ScoreInputs
  /\ aggOut = Pending

\* analyze along the drawn path, then calculateConfidence on its result
Score ==
  /\ aggOut = Pending
  /\ LET result == [strategyName |-> batch.detector,
                    score |-> analyzeScore(batch.detector, batch.path)]
     IN aggOut' = [result |-> result,
                   breakdown |-> breakdownOf(result, batch.adayStatus,
                                             batch.analysis.oiAnalysis,
                                             batch.analysis.volumeAnalysis,
                                             batch.signalDirection)]
  /\ lastOp' = "calculateConfidence"
  /\ UNCHANGED <<now, today, minScoreEnv, dailyState, isRunning, todayIsADay,
                 adayDirection, forceAnalyzeMode, signalSent, ticks, batch, evaluations,
                 handed, markedSent, lossRecorded>>
  /\ DetectorsUnchanged
  /\ ClassifierUnchanged

NextScore == Score

SpecScore == InitScore /\ [][NextScore]_vars

(***************************************************************************)
(* SpecOrb: one call of ORBStrategy.analyze (part_009).  batch holds the   *)
(* detector's fields and what the broker and the context supply at the     *)
(* call; aggOut receives the result and the fields after the call.         *)
(***************************************************************************)
\* first-candle ranges: the scenario's range and a candle with high = low
RangeSamples == {[low |-> 100, high |-> 110], [low |-> 105, high |-> 105]}

\* closes below, on and above the boundaries of the ranges
CloseSamples == {99, 100, 105, 110, 112}

\* today's 15-minute candles returned by getHistoricalData: none, the first
\* candle only, or more
CandleCounts == {0, 1, 2, 3}

\* the inline captureORBRange of a detector with nothing captured
CaptureOutcomes == {"throws", "empty", "captured"}

\* the candle analyze evaluates (0-based index): the one before the last in the
\* first minute of a 15-minute period, else the last
latestIndex(count, firstMinute) ==
  IF firstMinute /\ count > 1 THEN count - 2 ELSE count - 1

\* variant: the stop-loss is the boundary that was broken
stopLossOf_BrokenSide(breakoutDirection, range) ==
  IF breakoutDirection = "BULLISH" THEN range.high ELSE range.low

\* stopLoss: breakoutDirection === 'BULLISH' ? this.orbRange.low : this.orbRange.high
stopLossOf(breakoutDirection, range) ==
  IF breakoutDirection = "BULLISH" THEN range.low ELSE range.high

orbNull(status, st) ==
  [result |-> [signal |-> null, score |-> 0, reasons |-> <<status>>, stopLoss |-> None],
   orbCaptured |-> st.orbCaptured, signalSent |-> st.signalSent]

\* ORBStrategy.analyze on input i
orbAnalyze(i) ==
  LET st == [orbCaptured |-> i.orbCaptured \/ (i.capture = "captured"),
             signalSent |-> i.signalSent]
      close == i.close
      range == i.orbRange
      breakoutDirection ==
        IF close > range.high THEN "BULLISH"
        ELSE IF close < range.low THEN "BEARISH"
        ELSE null
      aligns ==
        /\ i.adayStatus.isADay
        /\ \/ (i.adayStatus.direction = "BULLISH" /\ breakoutDirection = "BULLISH")
           \/ (i.adayStatus.direction = "BEARISH" /\ breakoutDirection = "BEARISH")
  IN IF ~i.inWindow
       THEN orbNull("fail", [orbCaptured |-> i.orbCaptured, signalSent |-> i.signalSent])
     ELSE IF ~i.orbCaptured /\ i.capture # "captured"
       THEN orbNull("fail", st)
     ELSE IF i.signalSent
       THEN orbNull("neutral", st)
     ELSE IF i.brokerThrows
       THEN orbNull("fail", st)
     ELSE IF i.count < 2
       THEN orbNull("fail", st)
     ELSE IF latestIndex(i.count, i.firstMinute) = 0
       THEN orbNull("neutral", st)
     ELSE IF close > range.low /\ close < range.high
       THEN orbNull("neutral", st)
     ELSE IF breakoutDirection = null
       THEN orbNull("neutral", st)
     ELSE [result |-> [signal |-> IF breakoutDirection = "BULLISH" THEN "BUY_CE" ELSE "BUY_PE",
                       score |-> orbScore([breakout |-> TRUE, aligns |-> aligns,
                                           spike |-> i.isSpike]),
                       reasons |-> <<"pass">>,
                       stopLoss |-> Some(stopLossOf(breakoutDirection, range))],
           orbCaptured |-> TRUE, signalSent |-> TRUE]

OrbInputs ==
  {i \in [inWindow : BOOLEAN, orbCaptured : BOOLEAN, capture : CaptureOutcomes,
          signalSent : BOOLEAN, orbRange : RangeSamples, brokerThrows : BOOLEAN,
          count : CandleCounts, firstMinute : BOOLEAN, close : CloseSamples,
          adayStatus : ADaySamples, isSpike : BOOLEAN] :
     \* the inline capture runs only with nothing captured
     /\ i.orbCaptured => i.capture = "captured"
     \* a broker that throws returns no candles
     /\ i.brokerThrows => i.count = 0}

InitOrb ==
  /\ InitCommon
  /\ minScoreEnv = None
  /\ batch \in OrbInputs
  /\ aggOut = Pending

OrbAnalyze ==
  /\ aggOut = Pending
  /\ aggOut' = orbAnalyze(batch)
  /\ lastOp' = "ORB.analyze"
  /\ UNCHANGED <<now, today, minScoreEnv, dailyState, isRunning, todayIsADay,
                 adayDirection, forceAnalyzeMode, signalSent, ticks, batch, evaluations,
                 handed, markedSent, lossRecorded>>
  /\ DetectorsUnchanged
  /\ ClassifierUnchanged

NextOrb == OrbAnalyze

SpecOrb == InitOrb /\ [][NextOrb]_vars

(***************************************************************************)
(* SpecExpiry: one call of checkMomentum (expiryMomentumStrategy.js        *)
(* 89-199).  batch holds the module's state and what the clock and the     *)
(* broker supply at the call; aggOut receives what the call returns.       *)
(***************************************************************************)
\* a 5-minute candle
Candle(o, h, l, c) == [open |-> o, high |-> h, low |-> l, close |-> c]

\* the three most recent candles: a bullish run of 60 points, a bearish run
\* of 60, a bullish run of exactly 50, a bullish run of 30, a mixed run
RunSamples ==
  { <<Candle(22000, 22025, 21995, 22020), Candle(22020, 22045, 22015, 22040),
      Candle(22040, 22065, 22035, 22060)>>,
    <<Candle(22060, 22065, 22035, 22040), Candle(22040, 22045, 22015, 22020),
      Candle(22020, 22025, 21995, 22000)>>,
    <<Candle(22000, 22020, 21990, 22015), Candle(22015, 22035, 22010, 22030),
      Candle(22030, 22055, 22025, 22050)>>,
    <<Candle(22000, 22015, 21995, 22010), Candle(22010, 22025, 22005, 22020),
      Candle(22020, 22035, 22015, 22030)>>,
    <<Candle(22000, 22025, 21995, 22020), Candle(22020, 22025, 21995, 22000),
      Candle(22000, 22065, 21995, 22060)>> }

\* the volumes of the three candles: 1.2 times a baseline of 100, just under
\* 1.5 times, exactly 1.5 times (evenly and unevenly spread), twice
VolumeRuns ==
  { <<120, 120, 120>>, <<149, 150, 150>>, <<150, 150, 150>>, <<100, 150, 200>>,
    <<200, 200, 200>> }

\* volumeBaseline: 0 (none could be computed) or 100
BaselineSamples == {0, 100}

\* today's 5-minute candles: fewer than 10, or enough
HistoryLengths == {9, 10}

RECURSIVE sumOf(_)
sumOf(seq) == IF seq = <<>> THEN 0 ELSE Head(seq) + sumOf(Tail(seq))

\* calculateAvgVolume: totalVolume / candles.length, as a ratio
calculateAvgVolume(volumes) == Ratio(sumOf(volumes), Len(volumes))

\* volumeRatio = volumeBaseline > 0 ? recentAvgVolume / volumeBaseline : 0;
\* hasVolumeSpike = volumeRatio >= 1.5
hasVolumeSpike(volumes, baseline) ==
  /\ baseline > 0
  /\ LET avg == calculateAvgVolume(volumes)
     IN 2 * avg.n >= 3 * avg.d * baseline

allBullish(run) == \A k \in 1..Len(run) : run[k].close > run[k].open
allBearish(run) == \A k \in 1..Len(run) : run[k].close < run[k].open

\* Math.abs(moveEnd - moveStart)
totalMove(run) == abs(run[Len(run)].close - run[1].open)

minLow(run) == CHOOSE l \in {run[k].low : k \in 1..Len(run)} :
                 \A k \in 1..Len(run) : l <= run[k].low
maxHigh(run) == CHOOSE h \in {run[k].high : k \in 1..Len(run)} :
                  \A k \in 1..Len(run) : h >= run[k].high

\* Minimum move threshold
MinMove == 50

\* checkMomentum: null (None) or the signal object, and signalSent afterwards
checkMomentum(i) ==
  LET nothing == [returned |-> None, signalSent |-> i.signalSent]
  IN IF ~i.isExpiryDay THEN nothing
     ELSE IF ~i.inWindow THEN nothing
     ELSE IF i.signalSent THEN nothing
     ELSE IF i.brokerThrows THEN nothing
     ELSE IF i.length < 10 THEN nothing
     ELSE IF ~hasVolumeSpike(i.volumes, i.volumeBaseline) THEN nothing
     ELSE IF ~allBullish(i.run) /\ ~allBearish(i.run) THEN nothing
     ELSE IF totalMove(i.run) < MinMove THEN nothing
     ELSE IF allBullish(i.run)
       THEN [returned |-> Some([strategy |-> "EXPIRY MOMENTUM", signal |-> "BUY_CE",
                                spotPrice |-> i.run[Len(i.run)].close,
                                stopLoss |-> minLow(i.run)]),
             signalSent |-> TRUE]
       ELSE [returned |-> Some([strategy |-> "EXPIRY MOMENTUM", signal |-> "BUY_PE",
                                spotPrice |-> i.run[Len(i.run)].close,
                                stopLoss |-> maxHigh(i.run)]),
             signalSent |-> TRUE]

ExpiryInputs ==
  [isExpiryDay : BOOLEAN, inWindow : BOOLEAN, signalSent : BOOLEAN,
   brokerThrows : BOOLEAN, length : HistoryLengths, volumeBaseline : BaselineSamples,
   volumes : VolumeRuns, run : RunSamples]

InitExpiry ==
  /\ InitCommon
  /\ minScoreEnv = None
  /\ batch \in ExpiryInputs
  /\ aggOut = Pending

CheckMomentum ==
  /\ aggOut = Pending
  /\ aggOut' = checkMomentum(batch)
  /\ lastOp' = "checkMomentum"
  /\ UNCHANGED <<now, today, minScoreEnv, dailyState, isRunning, todayIsADay,
                 adayDirection, forceAnalyzeMode, signalSent, ticks, batch, evaluations,
                 handed, markedSent, lossRecorded>>
  /\ DetectorsUnchanged
  /\ ClassifierUnchanged

NextExpiry == CheckMomentum

SpecExpiry == InitExpiry /\ [][NextExpiry]_vars

(***************************************************************************)
(* SpecDayBehavior: one evaluation of DayBehaviorStrategy.analyze          *)
(* (part_007) by runStrategyEngine.  batch holds the orchestrator's day    *)
(* status and force flag, the detector's fields and the day metrics        *)
(* computed from the broker's candles; aggOut receives the result.         *)
(***************************************************************************)
MetricDirections == {"BULLISH", "BEARISH", "NEUTRAL"}

\* calculateDayMetrics: the fields analyze reads
MetricSamples ==
  [dayDirection : MetricDirections, gapType : {"GAP_UP", "GAP_DOWN", "NO_GAP"},
   gapFilled : BOOLEAN, position : {"abovePDH", "belowPDL", "inPrevRange"},
   momentum : MetricDirections]

\* the four alignment tests of analyze against the A-Day direction
alignmentPath(dir, m) ==
  [aligns |-> dir \in {"BULLISH", "BEARISH"} /\ m.dayDirection = dir,
   gap |-> \/ (dir = "BULLISH" /\ m.gapType = "GAP_UP" /\ ~m.gapFilled)
           \/ (dir = "BEARISH" /\ m.gapType = "GAP_DOWN" /\ ~m.gapFilled),
   level |-> \/ (dir = "BULLISH" /\ m.position = "abovePDH")
             \/ (dir = "BEARISH" /\ m.position = "belowPDL"),
   momentum |-> dir \in {"BULLISH", "BEARISH"} /\ m.momentum = dir]

\* variant: a signal from an alignment score of 5
strongAlignment_From5(score) == score >= 5

\* Generate signal if strong alignment (score >= 7)
strongAlignment(score) == score >= 7

dayBehaviorNull(status, sent) ==
  [result |-> [signal |-> null, score |-> 0, reasons |-> <<status>>], signalSent |-> sent]

\* DayBehaviorStrategy.analyze with context.adayStatus = [isADay, direction]
dayBehaviorAnalyze(i) ==
  IF ~i.inWindow THEN dayBehaviorNull("fail", i.signalSent)
  ELSE IF i.signalSent THEN dayBehaviorNull("neutral", i.signalSent)
  ELSE IF ~i.adayStatus.isADay THEN dayBehaviorNull("neutral", i.signalSent)
  ELSE IF i.brokerThrows THEN dayBehaviorNull("fail", i.signalSent)
  ELSE IF ~i.dataSufficient THEN dayBehaviorNull("fail", i.signalSent)
  ELSE LET score == dayBehaviorScore(alignmentPath(i.adayStatus.direction, i.metrics))
       IN IF strongAlignment(score)
            THEN [result |-> [signal |-> IF i.adayStatus.direction = "BULLISH"
                                           THEN "BUY_CE" ELSE "BUY_PE",
                              score |-> score, reasons |-> <<"pass">>],
                  signalSent |-> TRUE]
            ELSE [result |-> [signal |-> null, score |-> score, reasons |-> <<"pass">>],
                  signalSent |-> i.signalSent]

DayBehaviorInputs ==
  {i \in [inWindow : BOOLEAN, signalSent : BOOLEAN, adayStatus : ADaySamples,
          forceAnalyzeMode : BOOLEAN, brokerThrows : BOOLEAN, dataSufficient : BOOLEAN,
          metrics : MetricSamples] :
     \* a broker that throws supplies no data
     i.brokerThrows => ~i.dataSufficient}

InitDayBehavior ==
  /\ InitCommon
  /\ minScoreEnv = None
  /\ batch \in DayBehaviorInputs
  /\ aggOut = Pending

\* runStrategyEngine skips the engine on a day that is not an A-Day unless
\* force analyze is on; otherwise the detector is called with the day status
DayBehaviorAnalyze ==
  /\ aggOut = Pending
  /\ batch.adayStatus.isADay \/ batch.forceAnalyzeMode
  /\ aggOut' = dayBehaviorAnalyze(batch)
  /\ lastOp' = "DAY_BEHAVIOR.analyze"
  /\ UNCHANGED <<now, today, minScoreEnv, dailyState, isRunning, todayIsADay,
                 adayDirection, forceAnalyzeMode, signalSent, ticks, batch, evaluations,
                 handed, markedSent, lossRecorded>>
  /\ DetectorsUnchanged
  /\ ClassifierUnchanged

NextDayBehavior == DayBehaviorAnalyze

SpecDayBehavior == InitDayBehavior /\ [][NextDayBehavior]_vars

(***************************************************************************)
(* SpecPullback: the pullback detector (part_009) over a day and the next: *)
(* calls of analyze, one at a time, calls of reset (startDay's resetAll),  *)
(* the clock and midnight.                                                 *)
(***************************************************************************)
\* the first twelve 5-minute candles: open of the first, close of the last,
\* highest high and lowest low.  A rise of 40 in a range of 60, a fall of 40,
\* a rise of 10, and a rise of exactly 30% of a range of 100
FirstHourSamples ==
  { [open |-> 22000, close |-> 22040, high |-> 22050, low |-> 21990],
    [open |-> 22040, close |-> 22000, high |-> 22050, low |-> 21990],
    [open |-> 22000, close |-> 22010, high |-> 22050, low |-> 21990],
    [open |-> 22000, close |-> 22030, high |-> 22060, low |-> 21960] }

\* determineFirstHourTrendFromCandles on twelve candles: trendThreshold is
\* range * 0.3
determineFirstHourTrendFromCandles(h) ==
  LET change == h.close - h.open
      range == h.high - h.low
  IN IF 10 * change > 3 * range THEN "BULLISH"
     ELSE IF 10 * change < -(3 * range) THEN "BEARISH"
     ELSE "NEUTRAL"

\* variant: a neutral first hour is read as bullish
neutralTrend_Bullish(trend) == FALSE

\* if (!this.firstHourTrend || this.firstHourTrend === 'NEUTRAL')
neutralTrend(trend) == trend = null \/ trend = "NEUTRAL"

\* the instants the pullback detector is called at: before its window, at its
\* start, inside, at its end, after it
PullbackInstants ==
  { marketOpen, timeToMinutes(10, 15), timeToMinutes(11, 0), timeToMinutes(13, 30),
    timeToMinutes(13, 31) }

\* what the broker and the context supply to one call of analyze
PullbackInputs ==
  [brokerThrows : BOOLEAN, enough : BOOLEAN, firstHour : FirstHourSamples,
   ema : BOOLEAN, pullbackToEMA : BOOLEAN, continuation : BOOLEAN,
   adayStatus : ADaySamples]

pullbackNull(status) == [signal |-> null, score |-> 0, reasons |-> <<status>>]

\* PullbackStrategy.analyze at time t of day `day`, from the fields f =
\* [lastCheckDate, signalSent, pullback]: the result and the fields afterwards
pullbackAnalyze(f, i, t, day) ==
  LET resets == dayChanged(f.lastCheckDate, day)
      f0 == IF resets
              THEN [lastCheckDate |-> Some(day), signalSent |-> FALSE,
                    pullback |-> PullbackFresh]
              ELSE f
      determined ==
        IF f0.pullback.trendDetermined
          THEN f0.pullback
          ELSE [f0.pullback EXCEPT
                  !.firstHourTrend = determineFirstHourTrendFromCandles(i.firstHour),
                  !.trendDetermined = TRUE]
      trend == determined.firstHourTrend
      detected == determined.pullbackDetected \/ i.pullbackToEMA
      signal == IF detected /\ i.continuation
                  THEN (IF trend = "BULLISH" THEN "BUY_CE" ELSE "BUY_PE")
                  ELSE null
      aligns == /\ signal # null
                /\ i.adayStatus.isADay
                /\ \/ (i.adayStatus.direction = "BULLISH" /\ signal = "BUY_CE")
                   \/ (i.adayStatus.direction = "BEARISH" /\ signal = "BUY_PE")
  IN IF ~isInTimeWindow("PULLBACK", t)
       THEN [result |-> pullbackNull("fail"), fields |-> f0]
     ELSE IF f0.signalSent
       THEN [result |-> pullbackNull("neutral"), fields |-> f0]
     ELSE IF i.brokerThrows
       THEN [result |-> pullbackNull("fail"), fields |-> f0]
     ELSE IF ~i.enough
       THEN [result |-> pullbackNull("fail"), fields |-> f0]
     ELSE IF neutralTrend(trend)
       THEN [result |-> pullbackNull("neutral"),
             fields |-> [f0 EXCEPT !.pullback = determined]]
     ELSE IF ~i.ema
       THEN [result |-> [signal |-> null, score |-> 5, reasons |-> <<"fail">>],
             fields |-> [f0 EXCEPT !.pullback = determined]]
     ELSE [result |-> [signal |-> signal,
                       score |-> pullbackScore([trend |-> TRUE, ema |-> TRUE,
                                                pullback |-> detected,
                                                breakout |-> i.continuation,
                                                aligns |-> aligns]),
                       reasons |-> <<"pass">>],
           fields |-> [f0 EXCEPT !.pullback = [determined EXCEPT !.pullbackDetected = detected],
                                 !.signalSent = signal # null]]

PullbackFrame ==
  /\ UNCHANGED <<minScoreEnv, dailyState, isRunning, todayIsADay, adayDirection,
                 forceAnalyzeMode, ticks, batch, evaluations, handed, markedSent,
                 lossRecorded>>
  /\ UNCHANGED <<lastRunDate, orbRange, levels, sessionDay, laterResets, captured, analyzed>>
  /\ ClassifierUnchanged

PullbackElapse ==
  /\ \E u \in PullbackInstants : u > now
  /\ now' = NextIn(PullbackInstants, now)
  /\ lastOp' = "elapse"
  /\ UNCHANGED <<today, signalSent, lastCheckDate, pullback, aggOut>>
  /\ PullbackFrame

\* strategy.analyze(context), run to its end
PullbackAnalyze ==
  \E i \in PullbackInputs :
    LET out == pullbackAnalyze([lastCheckDate |-> lastCheckDate["PULLBACK"],
                                signalSent |-> signalSent["PULLBACK"],
                                pullback |-> pullback], i, now, today)
    IN /\ aggOut' = [result |-> out.result, firstHour |-> i.firstHour]
       /\ lastCheckDate' = [lastCheckDate EXCEPT !["PULLBACK"] = out.fields.lastCheckDate]
       /\ signalSent' = [signalSent EXCEPT !["PULLBACK"] = out.fields.signalSent]
       /\ pullback' = out.fields.pullback
       /\ lastOp' = "PULLBACK.analyze"
       /\ UNCHANGED <<now, today>>
       /\ PullbackFrame

\* strategy.reset(), as strategyEngine.resetAll calls it at session start
PullbackReset ==
  /\ lastCheckDate' = [lastCheckDate EXCEPT !["PULLBACK"] = None]
  /\ signalSent' = [signalSent EXCEPT !["PULLBACK"] = FALSE]
  /\ pullback' = PullbackFresh
  /\ lastOp' = "PULLBACK.reset"
  /\ UNCHANGED <<now, today, aggOut>>
  /\ PullbackFrame

InitPullback ==
  /\ InitCommon
  /\ minScoreEnv = None
  /\ batch = NoBatch
  /\ aggOut = Pending

NextPullback ==
  \/ PullbackElapse
  \/ OpNewDay
  \/ PullbackAnalyze
  \/ PullbackReset

SpecPullback == InitPullback /\ [][NextPullback]_vars

(***************************************************************************)
(* SpecStop: the stop-loss of the signal handed to the alert service       *)
(***************************************************************************)
\* the stop-loss hints the detectors put in data.stopLoss: a candle low or a
\* range low for BUY_CE, a high for BUY_PE
HintSamplesCE == {21900, 21950}
HintSamplePE == 22100

\* the detectors that answer with a signal in this specification
HintedStrategies == {"ORB", "PULLBACK", "SR"}

\* the score of a signal without the A-Day alignment bonus: breakout and volume
\* spike (ORB), trend, pullback and continuation (PULLBACK), breakout and trend (SR)
unalignedScore(s) ==
  CASE s = "ORB" -> 12
    [] s = "PULLBACK" -> 13
    [] s = "SR" -> 12

\* the score of a signal with every bonus, the A-Day alignment included
alignedScore == 15

noHintResult == [signal |-> null, score |-> 0, data |-> [stopLoss |-> None]]

\* what a detector can answer at t on a day classified as a: a signal only
\* inside its time window, the full score only along the A-Day direction
HintedOutcomes(s, a, t) ==
  {noHintResult}
    \cup (IF s \in HintedStrategies /\ isInTimeWindow(s, t)
           THEN {[signal |-> "BUY_CE", score |-> sc, data |-> [stopLoss |-> Some(h)]] :
                   sc \in {unalignedScore(s)}
                            \cup (IF a.direction = "BULLISH" THEN {alignedScore} ELSE {}),
                   h \in HintSamplesCE}
                \cup {[signal |-> "BUY_PE", score |-> unalignedScore(s),
                       data |-> [stopLoss |-> Some(HintSamplePE)]]}
           ELSE {})

HintedAnswers(a, t) ==
  {[s \in Strategies |->
      CASE s = "ORB" -> o1
        [] s = "PULLBACK" -> o2
        [] s = "SR" -> o3
        [] OTHER -> noHintResult] :
     o1 \in HintedOutcomes("ORB", a, t), o2 \in HintedOutcomes("PULLBACK", a, t),
     o3 \in HintedOutcomes("SR", a, t)}

\* runStrategies: { strategyName: name, ...result }, result.data included
resultsWithData(names, outcome) ==
  [i \in 1..Len(names) |->
     [strategyName |-> names[i], signal |-> outcome[names[i]].signal,
      score |-> outcome[names[i]].score, data |-> outcome[names[i]].data]]

\* optionChainService.selectStrike: throws (None) or resolves with the spot
StrikeSamples == {None, Some([spotPrice |-> 22000])}

\* aggregateSignals: the stopLoss and strategyData fields of an emitted
\* aggregatedSignal
aggregatedHints(strategyResults) ==
  LET signalResults == SelectSeq(strategyResults, hasSignal)
      alignedResults == ofDirection(signalResults, primaryDirectionOf(signalResults))
      primaryStrategy == reduceBest(alignedResults, None)[1]
  IN [stopLoss |-> primaryStrategy.data.stopLoss,
      strategyData |-> [i \in 1..Len(alignedResults) |->
                          [name |-> alignedResults[i].strategyName,
                           score |-> alignedResults[i].score,
                           data |-> alignedResults[i].data]]]

\* processAggregatedSignal: enrichedSignal.stopLoss =
\*   signal.strategyData?.[0]?.data?.stopLoss || strikeData.spotPrice * 0.99 / 1.01
\* (the sampled spot is a multiple of 100, so the product is whole)
enrichedStopLoss(strategyData, direction, spotPrice) ==
  LET hint == IF Len(strategyData) = 0 THEN None ELSE strategyData[1].data.stopLoss
  IN IF hint # None /\ hint[1] # 0
       THEN hint[1]
       ELSE IF direction = "BUY_CE" THEN (spotPrice * 99) \div 100
                                    ELSE (spotPrice * 101) \div 100

\* what one call of processAggregatedSignal did with the emitted signal
processedSignal(signal, hints, ds, strike, sendResolves, t) ==
  LET validation == validateSignal(ds, signal.direction, signal.primaryStrategy, t)
  IN IF ~validation.isValid
       THEN [signal |-> signal, hints |-> hints, step |-> "rejected", enriched |-> None]
     ELSE IF strike = None
       THEN [signal |-> signal, hints |-> hints, step |-> "selectStrike threw",
             enriched |-> None]
     ELSE [signal |-> signal, hints |-> hints,
           step |-> IF sendResolves THEN "sent" ELSE "sendAlert threw",
           enriched |-> Some([direction |-> signal.direction,
                              primaryStrategy |-> signal.primaryStrategy,
                              spotPrice |-> strike[1].spotPrice,
                              stopLoss |-> enrichedStopLoss(hints.strategyData,
                                                            signal.direction,
                                                            strike[1].spotPrice)])]

InitStop ==
  /\ InitCommon
  /\ minScoreEnv = None
  /\ batch = <<>>
  /\ aggOut = Pending

StopElapse ==
  /\ aggOut = Pending
  /\ \E u \in Instants : u > now
  /\ now' = NextInstant(now)
  /\ lastOp' = "elapse"
  /\ UNCHANGED <<today, minScoreEnv, dailyState, isRunning, todayIsADay, adayDirection,
                 forceAnalyzeMode, signalSent, ticks, batch, aggOut, evaluations, handed,
                 markedSent, lossRecorded>>
  /\ DetectorsUnchanged
  /\ ClassifierUnchanged

\* the detectors have answered: aggregateSignals on their results, then
\* processAggregatedSignal on what it returned, run to its end
AggregateAndProcess ==
  /\ aggOut = Pending
  /\ \E a \in StartDaySamples, z \in SessionAnalyzerSamples, strike \in StrikeSamples,
        sendResolves \in BOOLEAN :
     \E outcome \in HintedAnswers(a, now) :
       LET strategyResults == resultsWithData(StrategyOrder, outcome)
           signal == aggregateSignals(strategyResults, a, z.oiAnalysis, z.volumeAnalysis)
           ds == ensureTodayState(dailyState, today)
           out == IF signal = noSignal
                    THEN [signal |-> signal, hints |-> None, step |-> "no signal",
                          enriched |-> None]
                    ELSE processedSignal(signal, aggregatedHints(strategyResults), ds, strike,
                                   sendResolves, now)
       IN /\ (strike = None => ~sendResolves)
          /\ batch' = [strategyResults |-> strategyResults, adayStatus |-> a,
                       oiAnalysis |-> z.oiAnalysis, volumeAnalysis |-> z.volumeAnalysis]
          /\ aggOut' = out
          /\ dailyState' = IF signal = noSignal THEN dailyState
                           ELSE IF out.step = "sent"
                             THEN markSignalSent(ds, signal.direction, now)
                             ELSE ds
          /\ handed' = IF out.enriched = None THEN handed
                       ELSE [handed EXCEPT ![signal.direction] = @ + 1]
          /\ markedSent' = IF out.step = "sent" THEN markedSent \cup {signal.direction}
                           ELSE markedSent
  /\ lastOp' = "processAggregatedSignal"
  /\ UNCHANGED <<now, today, minScoreEnv, isRunning, todayIsADay, adayDirection,
                 forceAnalyzeMode, signalSent, ticks, evaluations, lossRecorded>>
  /\ DetectorsUnchanged
  /\ ClassifierUnchanged

NextStop ==
  \/ StopElapse
  \/ AggregateAndProcess

SpecStop == InitStop /\ [][NextStop]_vars

(***************************************************************************)
(* Claims about the orchestrator (Spec)                                    *)
(***************************************************************************)
\* C1 (as claimed): in a session, at most one signal per direction is handed to
\* Delivery (alertService.sendAlert is called at most once per direction).
C1_OneHandoverPerDirection ==
  \A d \in Directions : handed[d] <= 1

\* C2 (as claimed): when a signal is handed to Delivery, the time is inside the
\* window of every detector listed in its contributingStrategies.
C2_HandedInsideWindows ==
  \A i \in 1..MaxTicks :
    ticks[i].pc = "sendAlert"
      => \A k \in 1..Len(ticks[i].signal.contributingStrategies) :
           isInTimeWindow(ticks[i].signal.contributingStrategies[k], ticks[i].handedAt)

\* the configured minimum: 60 when none is configured
ConfiguredMinimum == IF minScoreEnv = None THEN DefaultMinScore ELSE minScoreEnv[1]

Aggregations == {i \in 1..MaxTicks : ticks[i].pc \in {"returned", "selectStrike", "sendAlert"}}

\* C3: an evaluation emits an AggregatedSignal only if the capped confidence
\* total is at or above the configured minimum; when the total is below it the
\* evaluation yields no signal, validateSignal is not called for it, and it goes
\* no further; only emitted signals reach strike selection and Delivery.
C3_EmitsOnlyAtThreshold ==
  \A i \in Aggregations :
    /\ ticks[i].signal # noSignal
         => /\ ticks[i].total # None
            /\ ticks[i].total[1] >= ConfiguredMinimum
            /\ ticks[i].signal.confidenceScore = ticks[i].total[1]
    /\ (ticks[i].total # None /\ ticks[i].total[1] < ConfiguredMinimum)
         => /\ ticks[i].signal = noSignal
            /\ ticks[i].pc = "returned"
            /\ ticks[i].reason = null
    /\ ticks[i].pc \in {"selectStrike", "sendAlert"} => ticks[i].signal # noSignal

\* detectors fired, the total stayed below the default minimum of 60, and the
\* evaluation returned without a signal
C3_Witness ==
  \E i \in 1..MaxTicks :
    /\ ticks[i].pc = "returned"
    /\ minScoreEnv = None
    /\ ticks[i].total # None
    /\ ticks[i].total[1] < DefaultMinScore
    /\ ticks[i].signal = noSignal

\* C5 (as claimed): at most one evaluation is in progress at any moment.
C5_OneEvaluationAtATime ==
  Cardinality(InProgress) <= 1

(***************************************************************************)
(* Claims about the aggregator and the scorer (SpecAgg)                    *)
(***************************************************************************)
\* the opposite direction
Other(d) == IF d = "BUY_CE" THEN "BUY_PE" ELSE "BUY_CE"

Aggregated == aggOut # Pending

Emitted == Aggregated /\ aggOut.direction # null

BatchRawTotal ==
  rawTotal(ofDirection(batch.strategyResults,
                       primaryDirectionOf(SelectSeq(batch.strategyResults, hasSignal))),
           batch.adayStatus, batch.oiAnalysis, batch.volumeAnalysis,
           primaryDirectionOf(SelectSeq(batch.strategyResults, hasSignal)))

\* C4: every emitted signal carries an integer confidence score between 0 and
\* 100 inclusive, whatever the raw sum of the contributions was.
C4_ScoreWithinRange ==
  Emitted => aggOut.confidenceScore \in 0..100

C4_Witness ==
  /\ Emitted
  /\ BatchRawTotal > 100
  /\ aggOut.confidenceScore = 100

\* the detectors of the batch that returned direction d, and their summed score
Agreeing(d) ==
  {i \in 1..Len(batch.strategyResults) : batch.strategyResults[i].signal = d}

RECURSIVE ScoreOver(_)
ScoreOver(I) ==
  IF I = {} THEN 0
  ELSE LET i == CHOOSE j \in I : TRUE
       IN batch.strategyResults[i].score + ScoreOver(I \ {i})

SummedScore(d) == ScoreOver(Agreeing(d))

DominantDirection ==
  IF SummedScore("BUY_CE") > SummedScore("BUY_PE") THEN "BUY_CE"
  ELSE IF SummedScore("BUY_PE") > SummedScore("BUY_CE") THEN "BUY_PE"
  ELSE IF Cardinality(Agreeing("BUY_CE")) > Cardinality(Agreeing("BUY_PE")) THEN "BUY_CE"
  ELSE IF Cardinality(Agreeing("BUY_PE")) > Cardinality(Agreeing("BUY_CE")) THEN "BUY_PE"
  ELSE "BUY_CE"

\* the scenario: two calls scoring 8 and 5 against one put scoring 20
CallsAgainstPut ==
  << [strategyName |-> "ORB", signal |-> "BUY_CE", score |-> 8],
     [strategyName |-> "PULLBACK", signal |-> "BUY_CE", score |-> 5],
     [strategyName |-> "VWAP", signal |-> "BUY_PE", score |-> 20] >>

BearishDay == [isADay |-> TRUE, direction |-> "BEARISH"]

WeakBearishReading == CHOOSE z \in AnalyzerSamples : z.oiAnalysis.pcrRatio = 70

Range(seq) == {seq[i] : i \in 1..Len(seq)}

AlignedNames == {batch.strategyResults[i].strategyName : i \in Agreeing(aggOut.direction)}

\* C15: contributingStrategies of an emitted signal lists exactly the detectors
\* of the batch that returned the emitted direction, each once, and the
\* confidence score is the one computed from these detectors' results alone.
C15_ContributorsAreTheAligned ==
  Emitted =>
    /\ Range(aggOut.contributingStrategies) = AlignedNames
    /\ Len(aggOut.contributingStrategies) = Cardinality(AlignedNames)
    /\ aggOut.strategyCount = Cardinality(AlignedNames)
    /\ aggOut.confidenceScore =
         calculateConfidence(
           SelectSeq(batch.strategyResults, LAMBDA r : r.signal = aggOut.direction),
           batch.adayStatus, batch.oiAnalysis, batch.volumeAnalysis,
           aggOut.direction).totalScore

\* a signal is emitted from a batch holding aligned, opposite and null results
C15_Witness ==
  /\ Emitted
  /\ Cardinality(AlignedNames) >= 2
  /\ Agreeing(Other(aggOut.direction)) # {}
  /\ Agreeing(null) # {}

\* C16: primaryStrategy of an emitted signal names an aligned detector whose
\* native score is at least that of every other aligned detector.
C16_PrimaryIsHighestAligned ==
  Emitted =>
    \E i \in Agreeing(aggOut.direction) :
      /\ batch.strategyResults[i].strategyName = aggOut.primaryStrategy
      /\ \A j \in Agreeing(aggOut.direction) :
           batch.strategyResults[i].score >= batch.strategyResults[j].score

\* the highest aligned score is not that of the first aligned detector
C16_Witness ==
  /\ Emitted
  /\ \E i, j \in Agreeing(aggOut.direction) :
       /\ i < j
       /\ batch.strategyResults[i].score < batch.strategyResults[j].score
       /\ batch.strategyResults[j].strategyName = aggOut.primaryStrategy

(***************************************************************************)
(* Claims about the safety filter (SpecSafety)                             *)
(***************************************************************************)
\* the strategy names a signal may carry
StrategyNames == Strategies \cup ClassNames

\* what validateSignal returns when called now
Validation(direction, strategy) ==
  validateSignal(ensureTodayState(dailyState, today), direction, strategy, now)

CurrentState == ensureTodayState(dailyState, today)

\* C6: in a session with no lock and with recorded loss below the cap, after
\* markSignalSent(d) every validateSignal call for direction d is rejected with
\* the duplicate-direction reason, whichever strategy is named.
C6_DuplicateRejected ==
  \A d \in markedSent :
    (~CurrentState.isLocked /\ lossRecorded < maxLossPerTrade)
      => \A s \in StrategyNames :
           Validation(d, s) = [isValid |-> FALSE, reason |-> ReasonDuplicate]

C6_Witness ==
  /\ lastOp = "validateSignal"
  /\ markedSent = Directions
  /\ ~CurrentState.isLocked
  /\ lossRecorded > 0 /\ lossRecorded < maxLossPerTrade
  /\ isInTimeWindow("PULLBACK", now)
  /\ CurrentState.lastSignalTime # None
  /\ now - CurrentState.lastSignalTime[1] >= minGap

\* C7: once the loss recorded through recordTrade in the session has reached the
\* cap, every validateSignal call is rejected, whatever the direction, strategy
\* or time of day (and whether or not unlockTrading has been called since).
C7_LossCapRejectsAll ==
  lossRecorded >= maxLossPerTrade
    => \A d \in Directions, s \in StrategyNames : ~Validation(d, s).isValid

C7_Witness ==
  /\ lastOp = "validateSignal"
  /\ lossRecorded = maxLossPerTrade
  /\ ~CurrentState.isLocked
  /\ markedSent = {}
  /\ isInTimeWindow("ORB", now)

\* LOCKED: validateSignal rejects every signal for the lock or the loss reason
Locked ==
  \A d \in Directions, s \in StrategyNames :
    Validation(d, s).reason \in {ReasonLocked, ReasonMaxLoss}

\* C8: within a session (same day, no resetDailyState), a step that is not
\* unlockTrading never takes the filter from LOCKED to OPEN.
C8_LockedStaysLocked ==
  [][(Locked /\ today' = today /\ lastOp' \notin {"unlockTrading", "resetDailyState"})
       => Locked']_vars

\* locked by the loss cap alone, and a later recordTrade (a profit) has run
C8_Witness ==
  /\ Locked
  /\ ~CurrentState.isLocked
  /\ lastOp = "recordTrade"
  /\ CurrentState.trades >= 2
  /\ CurrentState.totalLoss = maxLossPerTrade

\* the four checks of the filter, each read off the session's state
LockCheckFails == CurrentState.isLocked \/ CurrentState.totalLoss >= maxLossPerTrade

DuplicateCheckFails(d) == CurrentState.signalsSent[d]

FilterWindowOf(s) ==
  IF strategyKey(s) \in DOMAIN safetyTimeWindows
    THEN Some(safetyTimeWindows[strategyKey(s)])
    ELSE None

WindowCheckFails(s) ==
  \/ FilterWindowOf(s) = None
  \/ now < FilterWindowOf(s)[1].start
  \/ now > FilterWindowOf(s)[1].end

SinceLastSignal == now - CurrentState.lastSignalTime[1]

GapCheckFails == CurrentState.lastSignalTime # None /\ SinceLastSignal < minGap

\* C11: validateSignal checks the lock state (manual lock or loss cap), the
\* duplicate direction, the strategy time window and the minimum gap in this
\* order: the reason returned is that of the earliest check that fails, and the
\* signal is valid only if none fails.
C11_FirstFailingReason ==
  \A d \in Directions, s \in StrategyNames :
    LET v == Validation(d, s) IN
      /\ v.isValid = (v.reason = ReasonValidated)
      /\ IF LockCheckFails THEN v.reason \in {ReasonLocked, ReasonMaxLoss}
         ELSE IF DuplicateCheckFails(d) THEN v.reason = ReasonDuplicate
         ELSE IF WindowCheckFails(s) THEN v.reason = ReasonOutsideWindow
         ELSE IF GapCheckFails THEN v.reason = ReasonTooSoon
         ELSE v.reason = ReasonValidated

\* validateSignal has run where the duplicate, window and gap checks all fail
\* for one direction, and the window and gap checks for the other
C11_Witness ==
  /\ lastOp = "validateSignal"
  /\ ~LockCheckFails
  /\ DuplicateCheckFails("BUY_CE") /\ ~DuplicateCheckFails("BUY_PE")
  /\ WindowCheckFails("ORB BREAKOUT")
  /\ GapCheckFails
  /\ Validation("BUY_CE", "ORB BREAKOUT").reason = ReasonDuplicate
  /\ Validation("BUY_PE", "ORB BREAKOUT").reason = ReasonOutsideWindow

\* C12: while less than the minimum gap (5 minutes) has passed since the last
\* markSignalSent of the session, validateSignal rejects every signal, whatever
\* its direction and strategy; from 5 minutes on, no signal is rejected with the
\* too-soon reason.
C12_MinimumGap ==
  \A d \in Directions, s \in StrategyNames :
    IF CurrentState.lastSignalTime # None /\ SinceLastSignal < minGap
      THEN ~Validation(d, s).isValid
      ELSE Validation(d, s).reason # ReasonTooSoon

\* validateSignal has run exactly 5 minutes after a signal was marked sent, and
\* accepts the other direction
C12_Witness ==
  /\ lastOp = "validateSignal"
  /\ markedSent = {"BUY_CE"}
  /\ CurrentState.lastSignalTime # None
  /\ SinceLastSignal = minGap
  /\ Validation("BUY_PE", "PULLBACK CONTINUATION").isValid

\* the strategies whose window the filter knows (ORB, PULLBACK, EXPIRY), under
\* the registry name and under the class name
WindowedStrategies ==
  {s \in StrategyNames : FilterWindowOf(s) # None}

\* markSignalSent(d) has just changed nothing but d's flag and the timestamp
MarkedOnly(ds, after) ==
  \E d \in Directions :
    /\ after.signalsSent[d]
    /\ after.signalsSent[Other(d)] = ds.signalsSent[Other(d)]
    /\ after.isLocked = ds.isLocked
    /\ after.totalLoss = ds.totalLoss
    /\ after.trades = ds.trades
    /\ after.date = ds.date

C9_UnlockOpens ==
  lastOp = "unlockTrading"
    => \A d \in Directions, s \in StrategyNames :
         Validation(d, s).reason \notin {ReasonLocked, ReasonMaxLoss}

\* C10 (as claimed): for each registered detector, a signal of a strategy that
\* is inside its own declared window is never rejected with the
\* outside-time-window reason, and one whose window has elapsed is rejected (with
\* that reason, unless the lock, loss or duplicate check rejected it first).
C10_WindowsAgree ==
  \A d \in Directions, s \in Strategies :
    IF isInTimeWindow(s, now)
      THEN Validation(d, s).reason # ReasonOutsideWindow
      ELSE Validation(d, s).reason \in
             {ReasonLocked, ReasonMaxLoss, ReasonDuplicate, ReasonOutsideWindow}

(***************************************************************************)
(* Claims about the detectors' day-scoped state (SpecDay, Spec)            *)
(***************************************************************************)
\* C17 (as claimed): once startDay has reset the detectors for today, no
\* detector's reset() runs again on that day.
C17_ResetOncePerSession ==
  sessionDay = Some(today) => \A s \in Strategies : laterResets[s] = 0

\* C18 (as claimed): the opening range and the key levels that the 9:30
\* capture step established are still the detectors' range and levels for the
\* rest of that day.
C18_CapturedStatePersists ==
  IF captured = None THEN TRUE
  ELSE captured[1].day = today =>
         /\ captured[1].orbRange # None => orbRange = captured[1].orbRange
         /\ captured[1].levels # None => levels = captured[1].levels

\* the detectors that contributed to the signal evaluation i holds
ContributorsOf(i) ==
  IF ticks[i].signal = noSignal THEN {}
  ELSE Range(ticks[i].signal.contributingStrategies)

\* C19 (as claimed): a detector returns a non-null signal in at most one
\* evaluation of the session, so no two evaluations hold signals that the same
\* detector contributed to.
C19_FiresOncePerSession ==
  \A i, j \in Aggregations :
    i # j => ContributorsOf(i) \cap ContributorsOf(j) = {}

\* the detectors whose analyze threw in the last runStrategies
Thrown == {s \in DOMAIN analyzed.outcomes : analyzed.outcomes[s] = None}

ResultOf(s) ==
  CHOOSE r \in Range(analyzed.results) : r.strategyName = s

\* C20: when a detector's analyze throws, runStrategies still returns one
\* result per active detector: for the one that threw a null signal, score 0
\* and a single fail reason, for every other one exactly what its analyze
\* returned; the evaluation goes on to aggregateSignals with these results.
C20_ThrowIsContained ==
  Thrown # {} =>
    /\ Len(analyzed.results) = Cardinality(DOMAIN analyzed.outcomes)
    /\ \A s \in DOMAIN analyzed.outcomes :
         /\ \E r \in Range(analyzed.results) : r.strategyName = s
         /\ IF s \in Thrown
              THEN /\ ResultOf(s).signal = null
                   /\ ResultOf(s).score = 0
                   /\ ResultOf(s).reasons = <<"fail">>
              ELSE /\ ResultOf(s).signal = analyzed.outcomes[s][1].signal
                   /\ ResultOf(s).score = analyzed.outcomes[s][1].score
                   /\ ResultOf(s).reasons = analyzed.outcomes[s][1].reasons
    /\ batch.strategyResults = analyzed.results
    /\ aggOut = aggregateSignals(SelectSeq(batch.strategyResults,
                                           LAMBDA r : r.strategyName \notin Thrown),
                                 batch.adayStatus, batch.oiAnalysis, batch.volumeAnalysis)

\* one detector threw, the other one fired, and its signal is emitted
C20_Witness ==
  /\ lastOp = "runStrategyEngine"
  /\ Thrown = {"SR"}
  /\ "ORB" \in DOMAIN analyzed.outcomes
  /\ analyzed.outcomes["ORB"] # None
  /\ analyzed.outcomes["ORB"][1].signal # null
  /\ aggOut # noSignal
  /\ aggOut.contributingStrategies = <<"ORB">>

InWindowAt(t) ==
  {s \in Strategies : timeWindow(s).start <= t /\ t <= timeWindow(s).end}

C23_WindowHalfOpen ==
  \A s \in Strategies :
    /\ now = timeWindow(s).start => isInTimeWindow(s, now)
    /\ now = timeWindow(s).end => ~isInTimeWindow(s, now)

(***************************************************************************)
(* Claims about what an evaluation is computed from (SpecDay)              *)
(***************************************************************************)
\* C24: the AggregatedSignal of a tick is computed only from the results the
\* analyze calls of that same tick returned: it is aggregateSignals of this
\* run's results, and every contributing detector returned a signal of the
\* emitted direction in this run, having not fired before it; nothing a
\* detector returned in an earlier tick contributes.
C24_OnlyThisTicksResults ==
  [][(lastOp' = "runStrategyEngine" /\ vars' # vars /\ aggOut' # noSignal)
       => /\ batch'.strategyResults = analyzed'.results
          /\ aggOut' = aggregateSignals(analyzed'.results, batch'.adayStatus,
                                        batch'.oiAnalysis, batch'.volumeAnalysis)
          /\ \A s \in Range(aggOut'.contributingStrategies) :
               /\ s \in DOMAIN analyzed'.outcomes
               /\ analyzed'.outcomes[s] # None
               /\ analyzed'.outcomes[s][1].signal = aggOut'.direction
               /\ ~signalSent[s] \/ laterResets'[s] > laterResets[s]]_vars

\* the level detector fired in an earlier evaluation and answers "already
\* sent" now; the emitted signal is the breakout detector's alone
C24_Witness ==
  /\ lastOp = "runStrategyEngine"
  /\ "SR" \in DOMAIN analyzed.outcomes
  /\ analyzed.outcomes["SR"] = Some(AlreadySent)
  /\ signalSent["SR"]
  /\ aggOut # noSignal
  /\ aggOut.contributingStrategies = <<"ORB">>

(***************************************************************************)
(* Claims about who writes the safety state (SpecSafety)                   *)
(***************************************************************************)
\* the state is today's (a session is open) and the step stays inside it
InsideSession ==
  /\ dailyState.date = Some(today)
  /\ today' = today
  /\ lastOp' # "resetDailyState"

Mutators == {"markSignalSent", "recordTrade", "lockTrading", "unlockTrading"}

\* C25: within a session the safety state (sent flags, cumulative loss,
\* last-signal time, lock flag) changes only through markSignalSent,
\* recordTrade, lockTrading and unlockTrading; validateSignal and the read
\* accessors leave it unchanged.
C25_OnlyMutatorsWrite ==
  [][InsideSession
       => /\ dailyState' # dailyState => lastOp' \in Mutators
          /\ lastOp' \in ReadAccessors \cup {"validateSignal"}
               => dailyState' = dailyState]_vars

\* getDailySummary has just run on a state with a sent flag, a loss and the
\* lock set, and all of it is still there
C25_Witness ==
  /\ lastOp = "getDailySummary"
  /\ dailyState.date = Some(today)
  /\ dailyState.signalsSent["BUY_CE"]
  /\ dailyState.totalLoss > 0
  /\ dailyState.lastSignalTime # None
  /\ dailyState.isLocked

(***************************************************************************)
(* Claims about the Day Classifier (SpecClassifier)                        *)
(***************************************************************************)
\* C26 (as claimed): within one calendar day the Day Classifier performs
\* exactly one fresh computation; every later call returns the cached result
\* without fetching or computing again.
C26_OneComputationPerDay ==
  computed.day = Some(today) => computed.count <= 1

Classified == adayFilter.todayADayStatus # None

Classification == adayFilter.todayADayStatus[1]

ClassifiedCandle ==
  [open |-> Classification.data.open, high |-> Classification.data.high,
   low |-> Classification.data.low, close |-> Classification.data.close,
   volume |-> Classification.data.volume]

\* C27 (as claimed): for a daily candle with high = low, whatever its open,
\* close and volume and whatever the average volume, the classifier reports
\* bodyRatio 0 and isTrendDay false, and performs no division by zero.
C27_ZeroRangeCandle ==
  (Classified /\ Classification.data.high = Classification.data.low)
    => /\ Classification.data.bodyRatio = Some(0)
       /\ ~Classification.isADay
       /\ 0 \notin divisors(ClassifiedCandle, Classification.data.avgVolume)

\* the three criteria as the specification states them, on the inputs
BodyCriterion(d) ==
  d.high # d.low /\ 10 * abs(d.close - d.open) >= 6 * (d.high - d.low)

RangeCriterion(d) == d.high - d.low >= 100

VolumeCriterion(d) == d.volume >= d.avgVolume

\* C28 (as claimed): isTrendDay is true exactly when bodyRatio >= 0.60 and
\* range >= 100 points and volume >= 1.0 times the 20-day average all hold,
\* each boundary value itself qualifying.
C28_TrendDayCriteria ==
  Classified
    => (Classification.isADay
          <=> /\ BodyCriterion(Classification.data)
              /\ RangeCriterion(Classification.data)
              /\ VolumeCriterion(Classification.data))

\* C29: the reported direction is null whenever isTrendDay is false; whenever
\* isTrendDay is true it is BULLISH if close > open and BEARISH otherwise.
C29_DirectionOnlyOnTrendDays ==
  Classified
    => /\ ~Classification.isADay => Classification.direction = null
       /\ Classification.isADay
            => Classification.direction =
                 IF Classification.data.close > Classification.data.open
                   THEN "BULLISH" ELSE "BEARISH"

\* a trend day that closed below its open, reported BEARISH
C29_Witness ==
  /\ Classified
  /\ Classification.isADay
  /\ Classification.data.close < Classification.data.open
  /\ Classification.direction = "BEARISH"

(***************************************************************************)
(* Claims about the confidence breakdown (SpecScore)                       *)
(***************************************************************************)
Scored == aggOut # Pending

Within(category) == 0 <= category.score /\ category.score <= category.maxScore

\* C30: in every confidence breakdown each category's score lies between 0 and
\* that category's maximum: a detector's native score never exceeds the
\* detector's declared maximum on any path through its analyze, and the
\* day-alignment, open-interest, volume and Greeks categories never exceed 20,
\* 15, 15 and 10.
C30_CategoryScoresWithinMaxima ==
  Scored
    => /\ 0 <= aggOut.result.score
       /\ aggOut.result.score <= declaredMax(batch.detector)
       /\ aggOut.breakdown.strategy # None => Within(aggOut.breakdown.strategy[1])
       /\ Within(aggOut.breakdown.adayAlignment)
       /\ Within(aggOut.breakdown.oiSupport)
       /\ Within(aggOut.breakdown.volumeSpike)
       /\ Within(aggOut.breakdown.optionGreeks)
       /\ aggOut.breakdown.adayAlignment.score <= 20
       /\ aggOut.breakdown.oiSupport.score <= 15
       /\ aggOut.breakdown.volumeSpike.score <= 15
       /\ aggOut.breakdown.optionGreeks.score <= 10

\* the breakout detector on its highest path, with the day-alignment,
\* open-interest and volume categories at their maxima
C30_Witness ==
  /\ Scored
  /\ batch.detector = "ORB"
  /\ aggOut.result.score = 15
  /\ aggOut.breakdown.adayAlignment.score = 20
  /\ aggOut.breakdown.oiSupport.score = 15
  /\ aggOut.breakdown.volumeSpike.score = 15

(***************************************************************************)
(* Claims about the volume-spike category (SpecScore)                      *)
(***************************************************************************)
\* the volume ratio a scored input carried, in hundredths (undefined and null
\* count as 0)
ScoredRatio ==
  IF batch.analysis.volumeAnalysis.volumeRatio = None
    THEN 0
    ELSE batch.analysis.volumeAnalysis.volumeRatio[1]

\* C31 as stated: the volume-spike category scores 15 for a ratio >= 2.0,
\* exactly 70% of 15 for a ratio in [1.5, 2.0), exactly 30% of 15 for a ratio
\* in [1.0, 1.5), and 0 below 1.0.
C31_ExactShares ==
  Scored =>
    LET s == aggOut.breakdown.volumeSpike.score
        r == ScoredRatio
    IN /\ r >= 200 => s = VOLUME_SPIKE
       /\ (r >= 150 /\ r < 200) => 10 * s = 7 * VOLUME_SPIKE
       /\ (r >= 100 /\ r < 150) => 10 * s = 3 * VOLUME_SPIKE
       /\ r < 100 => s = 0

\* C31 (amended): the volume-spike category scores 15 for a ratio >= 2.0, 10
\* (70% of 15 rounded down) for a ratio in [1.5, 2.0), 4 (30% of 15 rounded
\* down) for a ratio in [1.0, 1.5), and 0 below 1.0.
C31_TieredRoundedDown ==
  Scored =>
    LET s == aggOut.breakdown.volumeSpike.score
        r == ScoredRatio
    IN /\ r >= 200 => s = 15
       /\ (r >= 150 /\ r < 200) => s = 10
       /\ (r >= 100 /\ r < 150) => s = 4
       /\ r < 100 => s = 0

\* a ratio of exactly 1.5 was scored in the middle tier
C31_Witness ==
  /\ Scored
  /\ ScoredRatio = 150
  /\ aggOut.breakdown.volumeSpike.score = 10

(***************************************************************************)
(* Claims about the breakout detector (SpecOrb)                            *)
(***************************************************************************)
OrbAnalyzed == lastOp = "ORB.analyze"

\* the call evaluated a candle: in the window, a range captured, nothing sent
\* yet, and a candle after the first one to look at
OrbEvaluates ==
  /\ batch.inWindow
  /\ batch.orbCaptured
  /\ ~batch.signalSent
  /\ ~batch.brokerThrows
  /\ batch.count >= 2
  /\ latestIndex(batch.count, batch.firstMinute) > 0

\* C32: with a range captured, inside the window and not yet fired, the
\* breakout detector returns BUY_CE with stop-loss = range low exactly when the
\* evaluated candle closes above the range high, BUY_PE with stop-loss = range
\* high exactly when it closes below the range low, and a null signal when the
\* close is within the range or on a boundary.
C32_BreakoutByClose ==
  (OrbAnalyzed /\ OrbEvaluates) =>
    LET r == aggOut.result
        range == batch.orbRange
    IN /\ (r.signal = "BUY_CE" /\ r.stopLoss = Some(range.low))
            <=> batch.close > range.high
       /\ (r.signal = "BUY_PE" /\ r.stopLoss = Some(range.high))
            <=> batch.close < range.low
       /\ r.signal = null
            <=> (batch.close >= range.low /\ batch.close <= range.high)
       /\ r.signal \in {"BUY_CE", "BUY_PE", null}

\* the scenario: range {low: 100, high: 110}, close 112, BUY_CE with stop-loss 100
C32_Witness ==
  /\ OrbAnalyzed
  /\ OrbEvaluates
  /\ batch.orbRange = [low |-> 100, high |-> 110]
  /\ batch.close = 112
  /\ aggOut.result.signal = "BUY_CE"
  /\ aggOut.result.stopLoss = Some(100)

(***************************************************************************)
(* Claims about the expiry-momentum detector (SpecExpiry)                  *)
(***************************************************************************)
MomentumChecked == lastOp = "checkMomentum"

\* an expiry day, inside the window, nothing sent, candles at hand, and the
\* three most recent candles' average volume below 1.5 times the baseline
VolumeBelowThreshold ==
  /\ batch.isExpiryDay
  /\ batch.inWindow
  /\ ~batch.signalSent
  /\ ~batch.brokerThrows
  /\ batch.length >= 10
  /\ batch.volumeBaseline > 0
  /\ 2 * sumOf(batch.volumes) < 3 * Len(batch.volumes) * batch.volumeBaseline

\* a fail-status reason naming Volume in what the detector returned
HasVolumeFailReason(returned) ==
  /\ returned # None
  /\ "reasons" \in DOMAIN returned[1]
  /\ \E k \in 1..Len(returned[1].reasons) :
       /\ returned[1].reasons[k].factor = "Volume"
       /\ returned[1].reasons[k].status = "fail"

\* C33: on an expiry day inside the window, when the average volume of the
\* three most recent candles is below 1.5 times the baseline, the detector
\* returns a result whose signal is null and which carries a fail-status reason
\* naming Volume.
C33_VolumeFailReason ==
  (MomentumChecked /\ VolumeBelowThreshold) =>
    /\ aggOut.returned # None
    /\ aggOut.returned[1].signal = null
    /\ HasVolumeFailReason(aggOut.returned)

(***************************************************************************)
(* Claims about the day-behavior detector (SpecDayBehavior)                *)
(***************************************************************************)
DayBehaviorAnalyzed == lastOp = "DAY_BEHAVIOR.analyze"

\* C34: the Day-Behavior detector returns a non-null signal only when the day
\* status is a trend day and its alignment score is at least 7 (of 3 + 2 + 3 +
\* 2); on a non-trend day it returns a null signal, also when the evaluation
\* is forced.
C34_SignalOnlyOnAlignedTrendDay ==
  DayBehaviorAnalyzed =>
    LET r == aggOut.result
    IN /\ r.signal # null => (batch.adayStatus.isADay /\ r.score >= 7 /\ r.score <= 10)
       /\ ~batch.adayStatus.isADay => r.signal = null

\* a forced evaluation on a non-trend day, inside the window, with every
\* metric bullish: the signal is null
C34_Witness ==
  /\ DayBehaviorAnalyzed
  /\ ~batch.adayStatus.isADay
  /\ batch.forceAnalyzeMode
  /\ batch.inWindow
  /\ ~batch.signalSent
  /\ batch.dataSufficient
  /\ batch.metrics = [dayDirection |-> "BULLISH", gapType |-> "GAP_UP", gapFilled |-> FALSE,
                      position |-> "abovePDH", momentum |-> "BULLISH"]
  /\ aggOut.result.signal = null

(***************************************************************************)
(* Claims about the pullback detector (SpecPullback)                       *)
(***************************************************************************)
\* the first-hour trend stands determined as NEUTRAL, on this day
NeutralToday ==
  /\ pullback.trendDetermined
  /\ pullback.firstHourTrend = "NEUTRAL"
  /\ lastCheckDate["PULLBACK"] = Some(today)

\* C35: once the first-hour trend has been determined as NEUTRAL in a session,
\* the pullback detector returns a null signal on every subsequent tick of
\* that session, whatever later candles show.
C35_NeutralDisablesForTheDay ==
  [][(NeutralToday /\ lastOp' = "PULLBACK.analyze" /\ today' = today)
       => (aggOut'.result.signal = null /\ pullback'.firstHourTrend = "NEUTRAL")]_vars

\* a NEUTRAL trend stands, and a later tick inside the window whose candles
\* show a bullish first hour returned a null signal
C35_Witness ==
  /\ NeutralToday
  /\ lastOp = "PULLBACK.analyze"
  /\ isInTimeWindow("PULLBACK", now)
  /\ aggOut.firstHour = [open |-> 22000, close |-> 22040, high |-> 22050, low |-> 21990]
  /\ aggOut.result.signal = null

(***************************************************************************)
(* Claims about the detectors' share of the confidence total (SpecAgg)     *)
(***************************************************************************)
\* the points of the four categories that do not come from a detector
ContextPoints(d) ==
    scoreAdayAlignment(batch.adayStatus, d)
  + scoreOISupport(batch.oiAnalysis, d)
  + scoreVolumeSpike(batch.volumeAnalysis)
  + scoreOptionGreeks

\* C36: every aligned detector with a positive native score contributes that
\* score to the confidence total, for each of the six names the detectors are
\* registered under: the total of an emitted signal is the context categories
\* plus the summed scores of all aligned detectors, capped at 100.
C36_EveryAlignedScoreCounts ==
  Emitted =>
    aggOut.confidenceScore
      = min(100, ContextPoints(aggOut.direction) + SummedScore(aggOut.direction))

(***************************************************************************)
(* Claims about the sent flags and delivery (Spec)                         *)
(***************************************************************************)
\* steps of evaluation i: its alert was sent; strike selection or sending
\* failed; it ended before strike selection (nothing emitted, a manual check,
\* or rejected by validateSignal)
Delivered(i) ==
  /\ ticks[i].pc = "sendAlert"
  /\ ticks'[i].pc = "returned"
  /\ ticks'[i].reason = LogSent

FailedStep(i) ==
  /\ ticks[i].pc \in {"selectStrike", "sendAlert"}
  /\ ticks'[i].pc = "returned"
  /\ ticks'[i].reason = LogFailed

EndedBeforeStrike(i) ==
  /\ ticks[i].pc = "runStrategies"
  /\ ticks'[i].pc = "returned"

\* C37: a direction's sent flag is set exactly by a successful delivery of an
\* alert for that direction: every successful delivery sets it, nothing else
\* sets it, a failed validation, strike selection or send leaves the flags and
\* the number of alerts handed over as they were, and only the session-start
\* reset clears a flag.
C37_FlagFollowsDelivery ==
  [][/\ \A i \in 1..MaxTicks :
          Delivered(i) => dailyState'.signalsSent[ticks[i].signal.direction]
     /\ \A d \in Directions :
          (~dailyState.signalsSent[d] /\ dailyState'.signalsSent[d])
            => \E i \in 1..MaxTicks : Delivered(i) /\ ticks[i].signal.direction = d
     /\ \A i \in 1..MaxTicks :
          (FailedStep(i) \/ EndedBeforeStrike(i))
            => (dailyState'.signalsSent = dailyState.signalsSent /\ handed' = handed)
     /\ \A d \in Directions :
          (dailyState.signalsSent[d] /\ ~dailyState'.signalsSent[d])
            => dailyState' = resetDailyState(today)]_vars

\* one evaluation's send failed and left no flag; another one's alert for the
\* same direction was sent and set it
C37_Witness ==
  \E i, j \in 1..MaxTicks :
    /\ ticks[i].pc = "returned"
    /\ ticks[i].reason = LogFailed
    /\ "handedAt" \in DOMAIN ticks[i]
    /\ ticks[j].pc = "returned"
    /\ ticks[j].reason = LogSent
    /\ ticks[j].signal.direction = ticks[i].signal.direction
    /\ dailyState.signalsSent[ticks[j].signal.direction]
    /\ \A d \in Directions \ {ticks[j].signal.direction} : ~dailyState.signalsSent[d]

(***************************************************************************)
(* Claims about detectors whose signal was not delivered (SpecDay)         *)
(***************************************************************************)
\* the detectors that returned a non-null signal in the last evaluation
FiredInLastRun ==
  {s \in DOMAIN analyzed.outcomes :
     analyzed.outcomes[s] # None /\ analyzed.outcomes[s][1].signal # null}

\* C38: a detector whose non-null signal did not reach Delivery (here: the
\* evaluation emitted nothing, the confidence total being below the threshold)
\* is still able to return a non-null signal in a later tick of the session:
\* it is not marked as having sent its signal.
C38_UndeliveredDetectorStaysArmed ==
  (lastOp = "runStrategyEngine" /\ aggOut = noSignal)
    => \A s \in FiredInLastRun : ~signalSent[s]

(***************************************************************************)
(* Claims about the stop-loss of a delivered signal (SpecStop)             *)
(***************************************************************************)
StopDelivered ==
  lastOp = "processAggregatedSignal" /\ aggOut.step = "sent"

\* the hint of the detector named as primaryStrategy
PrimaryHint ==
  LET i == CHOOSE j \in 1..Len(batch.strategyResults) :
             batch.strategyResults[j].strategyName = aggOut.signal.primaryStrategy
  IN batch.strategyResults[i].data.stopLoss

\* the hint of the first aligned detector in registration order
FirstAlignedHint == aggOut.hints.strategyData[1].data.stopLoss

\* C39: with more than one aligned detector, the stop-loss carried by a
\* delivered signal is the stop-loss hint of that signal's primaryStrategy
C39_StopLossOfPrimary ==
  (StopDelivered /\ aggOut.signal.strategyCount > 1)
    => Some(aggOut.enriched[1].stopLoss) = PrimaryHint

(***************************************************************************)
(* Claims about the reported lock status (SpecSafety)                      *)
(***************************************************************************)
\* validateSignal rejects every signal because of the lock or the loss cap
BlockedForTheDay ==
  \A d \in Directions, s \in StrategyNames :
    Validation(d, s).reason \in {ReasonLocked, ReasonMaxLoss}

\* what isTradingLocked() and getDailySummary().isLocked answer now
LockReported ==
  LET ds == ensureTodayState(dailyState, today)
  IN isTradingLocked(ds) /\ getDailySummary(ds).isLocked

\* C40: the reported lock status is true whenever validateSignal rejects every
\* signal because of a manual lock or the loss cap; in particular once the
\* cumulative recorded loss has reached the cap.
C40_LockStatusCoversLossCap == BlockedForTheDay => LockReported

====
